---- MODULE Spec2Model ----
(***************************************************************************)
(* n-netman: route-exchange control plane of one node.                     *)
(*                                                                         *)
(* The model follows one daemon ("this node"): its in-memory RouteTable,   *)
(* the gRPC server handlers that peers call, the kernel routes installed   *)
(* by the routes-received callback, the outbound client's per-peer         *)
(* connection map and the route refresh loop (health round, expiry sweep,  *)
(* re-announce).  Remote peers and the underlay network are environment.   *)
(***************************************************************************)
EXTENDS Integers, Sequences, FiniteSets, TLC

(* ---- bounds ---------------------------------------------------------- *)
MaxTime  == 3      \* the clock runs 1..MaxTime
MaxLease == 1      \* the lease_seconds the announcing peers are configured with
MaxBatch == 2      \* routes (or prefixes) carried by one request
MaxLeaseSecs == 64 \* largest configured routing.import.install.route_lease_seconds
MaxFires == 2      \* firings of the announce ticker that are followed
MaxTicks == 2      \* reconciliation ticks that are followed
AddrBits == 2      \* width of the addresses the import filter is asked about
MaxDeny  == 1      \* prefixes in an import policy's deny list

(* ---- program constants ----------------------------------------------- *)
ZeroTime     == 0     \* time.Time{} : IsZero() holds only for it
DefaultTable == 100   \* "if table == 0 { table = 100 }"
DefaultLeaseSecs  == 30  \* Defaults(): RouteLeaseSeconds: 30
FallbackLeaseSecs == 30  \* "if leaseSecs <= 0 { leaseSecs = 30 }"
MinRefreshSecs    == 30  \* "if refreshInterval < 30*time.Second"
HealthInterval    == 30  \* "healthTicker := time.NewTicker(30 * time.Second)"
DefaultMtu        == 1450  \* reconcileBridgeForOverlay: "mtu := 1450 // Default"
RulePriority      == 100   \* const RulePriority
RouteProtocolNNetMan == 99  \* const RouteProtocolNNetMan

(* ---- value domains ---------------------------------------------------- *)
PeerIds  == {"A", "B"}              \* cfg.Overlay.Peers[i].ID
Prefixes == {"p1", "p2"}            \* destination CIDRs
Slots    == {1}                     \* RPCs in flight at the server
Times    == 1..MaxTime
Leases   == {0, MaxLease}            \* a request carries no lease or the peers' lease

\* the VNI each prefix is announced under; 999 matches no configured overlay
VniOf(prefix) == IF prefix = "p1" THEN 100 ELSE 999

\* pb.Route as it arrives in a request (the fields the model follows)
Payload ==
  {[prefix |-> q, lease |-> l, vni |-> VniOf(q), nextHop |-> "gw"] :
     q \in Prefixes, l \in Leases}

RouteBatches  == UNION {[1..n -> Payload] : n \in 0..MaxBatch}
PrefixBatches == UNION {[1..n -> Prefixes] : n \in 0..MaxBatch}

VARIABLES
  now,      \* time.Now()
  cfg,      \* loaded configuration (fixed after start)
  routes,   \* RouteTable.routes : map prefix -> Route
  kernel,   \* kernel routes carrying the daemon's protocol tag
  conns,    \* Client.conns : map peer id -> peerConn
  srv,      \* in-flight server RPC per slot
  loop,     \* the client goroutine and runRouteRefreshLoop
  tlog,     \* the last RouteTable call made through the table's own API
  ticker,   \* the announce ticker of runRouteRefreshLoop
  daemon,   \* main: the cancellation context and the shutdown steps taken
  net,      \* kernel links, bridge addresses and VXLAN FDB entries
  rec,      \* Reconciler: ticks run and the outcome of the last one
  run,      \* Reconciler.Run: the running flag and where each caller stands
  pol,      \* routing.Manager: an import decision asked and its answer
  pair      \* two daemons that list each other as peer

\* what the route table, the server and the client leave alone
side == <<run, pol, pair>>

others == <<ticker, daemon, net, rec, side>>

vars == <<now, cfg, routes, kernel, conns, srv, loop, tlog, ticker, daemon,
          net, rec, run, pol, pair>>

(* ======================================================================= *)
(* RouteTable                                                              *)
(* ======================================================================= *)

\* controlplane.Route built by a handler from a pb.Route and the sender id
MkRoute(pl, peerID) ==
  [prefix |-> pl.prefix, lease |-> pl.lease, vni |-> pl.vni,
   nextHop |-> pl.nextHop, peerID |-> peerID,
   receivedAt |-> ZeroTime, expiresAt |-> ZeroTime]

NewRouteTable == << >>

Has(rt, prefix) == prefix \in DOMAIN rt

\* Add that leaves an existing entry for the prefix in place
Add_KeepExisting(rt, r, t) ==
  LET stored == [r EXCEPT !.receivedAt = t,
                          !.expiresAt  = IF r.lease > 0 THEN t + r.lease
                                                        ELSE r.expiresAt]
  IN [q \in (DOMAIN rt) \cup {r.prefix} |-> IF q \in DOMAIN rt THEN rt[q] ELSE stored]

\* Add that computes the expiry from the ReceivedAt field the caller passed
Add_ExpiryFromCallerTime(rt, r, t) ==
  LET stored == [r EXCEPT !.receivedAt = t,
                          !.expiresAt  = IF r.lease > 0 THEN r.receivedAt + r.lease
                                                        ELSE r.expiresAt]
  IN [q \in (DOMAIN rt) \cup {r.prefix} |-> IF q = r.prefix THEN stored ELSE rt[q]]

\* RouteTable.Add
Add(rt, r, t) ==
  LET stored == [r EXCEPT !.receivedAt = t,
                          !.expiresAt  = IF r.lease > 0 THEN t + r.lease
                                                        ELSE r.expiresAt]
  IN [q \in (DOMAIN rt) \cup {r.prefix} |-> IF q = r.prefix THEN stored ELSE rt[q]]

\* RouteTable.Remove
Remove(rt, prefix) == [q \in (DOMAIN rt) \ {prefix} |-> rt[q]]

\* the ownership test negated
OwnedBy_Negated(rt, peerID) == {q \in DOMAIN rt : rt[q].peerID # peerID}

\* RouteTable.RemoveByPeer : the prefixes it deletes
OwnedBy(rt, peerID) == {q \in DOMAIN rt : rt[q].peerID = peerID}

RemoveByPeer(rt, peerID) == [q \in (DOMAIN rt) \ OwnedBy(rt, peerID) |-> rt[q]]

\* RouteTable.RemoveByPeer : its return value
RemoveByPeerCount(rt, peerID) == Cardinality(OwnedBy(rt, peerID))

\* RouteTable.All
All(rt) == {rt[q] : q \in DOMAIN rt}

\* Server.getExportableRoutes: "if r.PeerID == "" { // Local route"
getExportableRoutes(rt) == {r \in All(rt) : r.peerID = ""}

\* RouteTable.GetByPeer
GetByPeer(rt, peerID) == {rt[q] : q \in OwnedBy(rt, peerID)}

\* the test with "not after now" in place of "before now"
IsStale_AtExpiry(r, t) == r.expiresAt # ZeroTime /\ r.expiresAt <= t

\* the test without the IsZero guard
IsStale_NoZeroGuard(r, t) == r.expiresAt < t

\* "!r.ExpiresAt.IsZero() && r.ExpiresAt.Before(now)"
IsStale(r, t) == r.expiresAt # ZeroTime /\ r.expiresAt < t

StalePrefixes(rt, t) == {q \in DOMAIN rt : IsStale(rt[q], t)}

\* RouteTable.ExpireStale : the table it leaves
ExpireStale(rt, t) == [q \in (DOMAIN rt) \ StalePrefixes(rt, t) |-> rt[q]]

\* RouteTable.ExpireStale : the routes it returns
ExpireStaleRoutes(rt, t) == {rt[q] : q \in StalePrefixes(rt, t)}

\* RouteTable.ExpireStale : the count the older signature returns
ExpireStaleCount(rt, t) == Cardinality(StalePrefixes(rt, t))

(* ======================================================================= *)
(* Kernel routes                                                           *)
(* ======================================================================= *)

TableForVni_Fallback(c, vni) == IF c.table = 0 THEN DefaultTable ELSE c.table

\* vniToTable built from cfg.GetOverlays(), with the fallback to the global table
TableForVni(c, vni) ==
  IF vni \in DOMAIN c.vniToTable THEN c.vniToTable[vni]
  ELSE IF c.table = 0 THEN DefaultTable ELSE c.table

KRoute(r, c) == [dst |-> r.prefix, table |-> TableForVni(c, r.vni)]

\* net.ParseCIDR(r.Prefix) and net.ParseIP(r.NextHop) both succeed; the
\* prefixes and next hops of the model parse, except the ones named "bad"
Parseable(r) == r.prefix # "bad" /\ r.nextHop # "bad"

\* the loop left at the first route that does not parse
InstallReceivedRoutes_StopAtBad(k, rs, c) ==
  k \cup {KRoute(rs[i], c) :
            i \in {j \in DOMAIN rs : \A h \in 1..j : Parseable(rs[h])}}

\* installReceivedRoutes: RouteManager.Replace for every route of the batch
\* that parses; the others are skipped with a warning
InstallReceivedRoutes(k, rs, c) ==
  k \cup {KRoute(rs[i], c) : i \in {j \in DOMAIN rs : Parseable(rs[j])}}

\* the deletes issued against the global table instead of the route's own
DeleteKernelRoutes_GlobalTable(k, rset, c) ==
  k \ {[dst |-> r.prefix, table |-> c.table] : r \in rset}

\* RouteManager.Delete for every route of the set
DeleteKernelRoutes(k, rset, c) == k \ {KRoute(r, c) : r \in rset}

(* ======================================================================= *)
(* Initial state                                                           *)
(* ======================================================================= *)

IdleSrv ==
  [pc |-> "idle", kind |-> "none", nodeId |-> "", reqRoutes |-> << >>,
   reqPrefixes |-> << >>, idx |-> 1, incoming |-> << >>, count |-> 0,
   cbDone |-> FALSE, cbArg |-> << >>, held |-> {}]

IdleLoop ==
  [pc |-> "start", down |-> {}, todo |-> {}, cur |-> "", flushed |-> {},
   removed |-> 0, expired |-> {}, unplugged |-> {},
   op |-> "none", sent |-> {}, recovered |-> {}, announced |-> {},
   firstErr |-> FALSE]

NoConn == [present |-> FALSE, healthy |-> FALSE, lastSeen |-> ZeroTime]

NoLog ==
  [op |-> "none", prefix |-> "", peerID |-> "", at |-> ZeroTime, count |-> 0,
   returned |-> {}, before |-> << >>]

\* configured route_lease_seconds: unset or negative, and 1..MaxLeaseSecs
LeaseSettings == -1..MaxLeaseSecs

\* routing.import with "accept_all: true" and empty allow and deny lists
AcceptAllPolicy == [acceptAll |-> TRUE, deny |-> << >>, allow |-> << >>]

ConfigsWith(flush, leases) ==
  [flushOnPeerDown : flush,      \* cfg.Routing.Import.Install.FlushOnPeerDown
   overlayFlush    : {TRUE},     \* overlays[i].routing.import.install.flush_on_peer_down
   table           : {50},       \* cfg.Routing.Import.Install.Table
   vniToTable      : {[v \in {100} |-> 100]},
   leaseSecs       : leases,     \* cfg.Routing.Import.Install.RouteLeaseSeconds
   overlayLeaseSecs : {0},       \* overlays[i].routing.import.install.route_lease_seconds
   exports         : {Prefixes}, \* overlays[i].routing.export.networks
   import          : {AcceptAllPolicy}] \* overlays[i].routing.import

Configs == ConfigsWith(BOOLEAN, {DefaultLeaseSecs})

\* no ticker yet: runRouteRefreshLoop has not started
NoTicker == [period |-> 0, elapsed |-> 0, fires |-> 0, health |-> 0]

\* main waiting in "<-ctx.Done()": server started, client made, nothing flushed
Running ==
  [ctx |-> "live", server |-> "serving", client |-> "open", flushed |-> FALSE,
   steps |-> << >>]

\* cfg.GetOverlays(), in configuration order: the first overlay replicates
\* BUM traffic head-end over a managed bridge with an address and has
\* lookup_rules enabled, the second uses a multicast group over a bridge the
\* KVM section does not list and has no lookup rules; neither sets an MTU
OverlayDefs ==
  << [name |-> "vx1", vni |-> 100, bridge |-> "br1", manage |-> TRUE,
      ipv4 |-> "a1", bum |-> "head-end-replication", mtu |-> 0,
      lookupRules |-> TRUE, table |-> 100],
     [name |-> "vx2", vni |-> 200, bridge |-> "br2", manage |-> FALSE,
      ipv4 |-> "", bum |-> "multicast", mtu |-> 0,
      lookupRules |-> FALSE, table |-> 200] >>

OverlayIdx == 1..Len(OverlayDefs)

LinkNames == {OverlayDefs[i].name : i \in OverlayIdx}
               \cup {OverlayDefs[i].bridge : i \in OverlayIdx}

\* peer.Endpoint.Address of every configured peer
PeerAddrs == PeerIds

NoLink == [kind |-> "none", vni |-> 0, master |-> "", up |-> FALSE, mtu |-> 0]

\* the policy rules a run can ensure, each with the number of copies the
\* kernel holds
RuleKeys ==
  {[dir |-> d, dev |-> OverlayDefs[i].bridge, table |-> OverlayDefs[i].table,
    prio |-> p] :
     d \in {"iif", "oif"}, i \in OverlayIdx,
     p \in {RulePriority, RulePriority + 1}}

NoRules == [k \in RuleKeys |-> 0]

\* a host with none of the overlays' devices
EmptyNet ==
  [links |-> [l \in LinkNames |-> NoLink], addrs |-> {}, fdb |-> {},
   rules |-> NoRules]

\* no kernel call made for any overlay
NoTrace == [i \in OverlayIdx |-> << >>]

\* reconciler.New: nothing run yet
IdleRec ==
  [ticks |-> 0, failed |-> 0, visited |-> {}, okRun |-> 0, trace |-> NoTrace,
   inj |-> [at |-> 0, step |-> "none"]]

\* two callers of Run on the one Reconciler
Runners == {1, 2}

\* reconciler.New: "running" is false, no caller is inside Run
IdleRun ==
  [running |-> FALSE, pc |-> [r \in Runners |-> "idle"],
   idx |-> [r \in Runners |-> 0]]

\* a CIDR string the filter cannot parse
BadCidr == [ok |-> FALSE, addr |-> 0, len |-> 0]

\* no import decision asked
NoPol ==
  [asked |-> FALSE, route |-> BadCidr, deny |-> << >>, allow |-> << >>,
   acceptAll |-> FALSE, answer |-> FALSE]

\* the two hosts of the peering scenario before either daemon is started:
\* no server, no client connection, empty route tables and kernel tables
NoPair ==
  [up     |-> [d \in PeerIds |-> FALSE],
   pc     |-> [d \in PeerIds |-> "off"],
   conns  |-> [d \in PeerIds |-> [p \in PeerIds |-> NoConn]],
   table  |-> [d \in PeerIds |-> {}],
   kernel |-> [d \in PeerIds |-> {}],
   reach  |-> [d \in PeerIds |-> FALSE],
   first  |-> "none",
   missed |-> [d \in PeerIds |-> FALSE]]

StartCore(cs, nets) ==
  /\ net \in nets
  /\ rec = IdleRec
  /\ now = 1
  /\ cfg \in cs
  /\ routes = NewRouteTable
  /\ kernel = {}
  /\ conns = [p \in PeerIds |-> NoConn]
  /\ srv = [s \in Slots |-> IdleSrv]
  /\ loop = IdleLoop
  /\ tlog = NoLog
  /\ ticker = NoTicker
  /\ daemon = Running

StartOn(cs, nets) ==
  /\ StartCore(cs, nets)
  /\ run = IdleRun
  /\ pol = NoPol
  /\ pair = NoPair

StartWith(cs) == StartOn(cs, {EmptyNet})

Init == StartWith(Configs)

(* ======================================================================= *)
(* Environment                                                             *)
(* ======================================================================= *)

\* the clock advances
Tick ==
  /\ now < MaxTime
  /\ now' = now + 1
  /\ UNCHANGED <<cfg, routes, kernel, conns, srv, loop, tlog, others>>

(* ======================================================================= *)
(* Server: ExchangeState / AnnounceRoutes / WithdrawRoutes                 *)
(* ======================================================================= *)

\* a peer's ExchangeState or AnnounceRoutes request reaches the server
RecvRoutes(s, kind, nodeId, batch) ==
  /\ srv[s].pc = "idle"
  /\ srv' = [srv EXCEPT ![s] =
       [IdleSrv EXCEPT !.pc = "ingest", !.kind = kind, !.nodeId = nodeId,
                       !.reqRoutes = batch]]
  /\ UNCHANGED <<now, cfg, routes, kernel, conns, loop, tlog, others>>

\* the route built without the sender's id
Stamp_NoPeer(pl, nodeId) == MkRoute(pl, "")

\* the route a handler builds from req.Routes[i]: "PeerID: req.NodeId"
Stamp(pl, nodeId) == MkRoute(pl, nodeId)

\* the handler answering without running the callback
AfterIngest_NoCallback(incoming) == "reply"

\* the callback invoked whatever the number of routes
AfterIngest_AlwaysCallback(incoming) == "callback"

\* where the handler goes after the ingest loop:
\* "if callback != nil && len(incomingRoutes) > 0 { callback(incomingRoutes) }"
AfterIngest(incoming) == IF Len(incoming) > 0 THEN "callback" ELSE "reply"

\* one iteration of "for _, r := range req.Routes": Add, then append
Ingest(s) ==
  LET h == srv[s] IN
  /\ h.pc = "ingest"
  /\ IF h.idx <= Len(h.reqRoutes)
       THEN LET route == Stamp(h.reqRoutes[h.idx], h.nodeId) IN
            /\ routes' = Add(routes, route, now)
            /\ srv' = [srv EXCEPT ![s].idx = h.idx + 1,
                                  ![s].incoming = Append(h.incoming, route)]
       ELSE /\ srv' = [srv EXCEPT ![s].pc = AfterIngest(h.incoming)]
            /\ UNCHANGED routes
  /\ UNCHANGED <<now, cfg, kernel, conns, loop, tlog, others>>

\* callback(incomingRoutes): installReceivedRoutes runs to completion
Callback(s) ==
  /\ srv[s].pc = "callback"
  /\ kernel' = InstallReceivedRoutes(kernel, srv[s].incoming, cfg)
  /\ srv' = [srv EXCEPT ![s].pc = "reply", ![s].cbDone = TRUE,
                        ![s].cbArg = srv[s].incoming]
  /\ UNCHANGED <<now, cfg, routes, conns, loop, tlog, others>>

\* a peer's WithdrawRoutes request reaches the server
RecvWithdraw(s, nodeId, batch) ==
  /\ srv[s].pc = "idle"
  /\ srv' = [srv EXCEPT ![s] =
       [IdleSrv EXCEPT !.pc = "wcheck", !.kind = "withdraw", !.nodeId = nodeId,
                       !.reqPrefixes = batch]]
  /\ UNCHANGED <<now, cfg, routes, kernel, conns, loop, tlog, others>>

\* the test without the ownership comparison
MayWithdraw_AnyOwner(rt, prefix, nodeId) == Has(rt, prefix)

\* "if r, ok := s.routeTable.Get(prefix); ok && r.PeerID == req.NodeId"
MayWithdraw(rt, prefix, nodeId) == Has(rt, prefix) /\ rt[prefix].peerID = nodeId

\* one iteration of "for _, prefix := range req.Prefixes": the Get and the test
WithdrawCheck(s) ==
  LET h == srv[s] IN
  /\ h.pc = "wcheck"
  /\ IF h.idx <= Len(h.reqPrefixes)
       THEN IF MayWithdraw(routes, h.reqPrefixes[h.idx], h.nodeId)
              THEN srv' = [srv EXCEPT ![s].pc = "wremove"]
              ELSE srv' = [srv EXCEPT ![s].idx = h.idx + 1]
       ELSE srv' = [srv EXCEPT ![s].pc = "reply"]
  /\ UNCHANGED <<now, cfg, routes, kernel, conns, loop, tlog, others>>

\* "s.routeTable.Remove(prefix); count++"
WithdrawRemove(s) ==
  LET h == srv[s] IN
  /\ h.pc = "wremove"
  /\ routes' = Remove(routes, h.reqPrefixes[h.idx])
  /\ srv' = [srv EXCEPT ![s].pc = "wcheck", ![s].idx = h.idx + 1,
                        ![s].count = h.count + 1]
  /\ UNCHANGED <<now, cfg, kernel, conns, loop, tlog, others>>

\* the handler returns: the reply goes out
Reply(s) ==
  /\ srv[s].pc = "reply"
  /\ srv' = [srv EXCEPT ![s] = IdleSrv]
  /\ UNCHANGED <<now, cfg, routes, kernel, conns, loop, tlog, others>>

ServerStep ==
  \E s \in Slots :
    \/ \E kind \in {"exchange", "announce"}, n \in PeerIds, b \in RouteBatches :
         RecvRoutes(s, kind, n, b)
    \/ \E n \in PeerIds, b \in PrefixBatches : RecvWithdraw(s, n, b)
    \/ Ingest(s)
    \/ Callback(s)
    \/ WithdrawCheck(s)
    \/ WithdrawRemove(s)
    \/ Reply(s)

Next ==
  \/ Tick
  \/ ServerStep

Spec == Init /\ [][Next]_vars

(* ======================================================================= *)
(* RouteTable driven through its own API (SpecTable)                       *)
(* ======================================================================= *)

\* owners a caller may put on a route: a peer id, or "" for a local route
Owners == PeerIds \cup {""}

\* rt.Add(r) with r built the way every caller builds it (ExpiresAt left zero)
TableAdd(pl, peerID) ==
  /\ routes' = Add(routes, MkRoute(pl, peerID), now)
  /\ tlog' = [NoLog EXCEPT !.op = "add", !.prefix = pl.prefix, !.peerID = peerID,
                           !.at = now, !.before = routes]
  /\ UNCHANGED <<now, cfg, kernel, conns, srv, loop, others>>

\* rt.Remove(prefix)
TableRemove(prefix) ==
  /\ routes' = Remove(routes, prefix)
  /\ tlog' = [NoLog EXCEPT !.op = "remove", !.prefix = prefix, !.at = now,
                           !.before = routes]
  /\ UNCHANGED <<now, cfg, kernel, conns, srv, loop, others>>

\* count := rt.RemoveByPeer(peerID)
TableRemoveByPeer(peerID) ==
  /\ routes' = RemoveByPeer(routes, peerID)
  /\ tlog' = [NoLog EXCEPT !.op = "removeByPeer", !.peerID = peerID, !.at = now,
                           !.count = RemoveByPeerCount(routes, peerID),
                           !.before = routes]
  /\ UNCHANGED <<now, cfg, kernel, conns, srv, loop, others>>

\* expired := rt.ExpireStale()
TableExpireStale ==
  /\ routes' = ExpireStale(routes, now)
  /\ tlog' = [NoLog EXCEPT !.op = "expireStale", !.at = now,
                           !.count = ExpireStaleCount(routes, now),
                           !.returned = ExpireStaleRoutes(routes, now),
                           !.before = routes]
  /\ UNCHANGED <<now, cfg, kernel, conns, srv, loop, others>>

NextTable ==
  \/ Tick
  \/ \E pl \in Payload, o \in Owners : TableAdd(pl, o)
  \/ \E q \in Prefixes : TableRemove(q)
  \/ \E o \in Owners : TableRemoveByPeer(o)
  \/ TableExpireStale

SpecTable == Init /\ [][NextTable]_vars

(* ======================================================================= *)
(* Client and route refresh loop, with whole server handlers (SpecLoop)    *)
(* ======================================================================= *)

RECURSIVE IngestAll(_, _, _, _)
\* the handlers' loop "for _, r := range req.Routes { ...; s.routeTable.Add(route) }"
IngestAll(rt, batch, nodeId, t) ==
  IF batch = << >> THEN rt
  ELSE IngestAll(Add(rt, Stamp(Head(batch), nodeId), t), Tail(batch), nodeId, t)

\* incomingRoutes after that loop
StampAll(batch, nodeId) == [i \in DOMAIN batch |-> Stamp(batch[i], nodeId)]

RECURSIVE WithdrawAll(_, _, _)
\* WithdrawRoutes' loop over req.Prefixes
WithdrawAll(rt, prefixes, nodeId) ==
  IF prefixes = << >> THEN rt
  ELSE WithdrawAll(IF MayWithdraw(rt, Head(prefixes), nodeId)
                     THEN Remove(rt, Head(prefixes)) ELSE rt,
                   Tail(prefixes), nodeId)

\* a whole ExchangeState / AnnounceRoutes handler: ingest, then the callback
ServeRoutes(nodeId, batch) ==
  /\ routes' = IngestAll(routes, batch, nodeId, now)
  /\ kernel' = IF AfterIngest(StampAll(batch, nodeId)) = "callback"
                 THEN InstallReceivedRoutes(kernel, StampAll(batch, nodeId), cfg)
                 ELSE kernel
  /\ UNCHANGED <<now, cfg, conns, srv, loop, tlog, others>>

\* a whole WithdrawRoutes handler
ServeWithdraw(nodeId, prefixes) ==
  /\ routes' = WithdrawAll(routes, prefixes, nodeId)
  /\ UNCHANGED <<now, cfg, kernel, conns, srv, loop, tlog, others>>

\* peers an operation selects: "if pc.healthy && pc.client != nil"
\* the selection without the health test
HealthyPeers_Connected(cn) == {p \in PeerIds : cn[p].present}

\* "if pc.healthy && pc.client != nil { peers = append(peers, pc) }"
HealthyPeers(cn) == {p \in PeerIds : cn[p].present /\ cn[p].healthy}

\* Client.ConnectToPeers: connectPeer per configured peer; dialled is the set
\* of peers whose dial succeeded; "return firstErr" is the error of the first
\* dial that failed
ConnectToPeers(dialled) ==
  /\ loop.pc = "start"
  /\ conns' = [p \in PeerIds |->
                 IF conns[p].present THEN conns[p]
                 ELSE IF p \in dialled
                   THEN [present |-> TRUE, healthy |-> TRUE, lastSeen |-> now]
                 ELSE conns[p]]
  /\ loop' = [loop EXCEPT !.pc = "exchange", !.todo = HealthyPeers(conns'),
                          !.firstErr = \E p \in PeerIds :
                                         ~conns[p].present /\ p \notin dialled]
  /\ UNCHANGED <<now, cfg, routes, kernel, srv, tlog, others>>

\* Client.markPeerUnhealthy
markPeerUnhealthy(cn, p) ==
  IF cn[p].present THEN [cn EXCEPT ![p].healthy = FALSE] ELSE cn

\* "p.healthy = true; p.lastSeen = time.Now()"
markPeerHealthy(cn, p, t) ==
  IF cn[p].present THEN [cn EXCEPT ![p].healthy = TRUE, ![p].lastSeen = t] ELSE cn

\* Client.exchangeWithPeer inside ExchangeStateWithPeers' loop: the RPC to p
\* fails, or answers with resp (NodeId p), whose routes go into the table
ExchangeWithPeer(p, ok, resp) ==
  /\ loop.pc = "exchange"
  /\ p \in loop.todo
  /\ IF ok
       THEN /\ routes' = IngestAll(routes, resp, p, now)
            /\ conns' = markPeerHealthy(conns, p, now)
       ELSE /\ conns' = markPeerUnhealthy(conns, p)
            /\ UNCHANGED routes
  /\ loop' = [loop EXCEPT !.todo = loop.todo \ {p}, !.op = "exchange",
                          !.sent = loop.sent \cup {p}]
  /\ UNCHANGED <<now, cfg, kernel, srv, tlog, others>>

Max(a, b) == IF a >= b THEN a ELSE b

\* half the lease with no lower limit
RefreshInterval_NoFloor(leaseSecs) ==
  (IF leaseSecs <= 0 THEN FallbackLeaseSecs ELSE leaseSecs) \div 2

\* refreshInterval of runRouteRefreshLoop, in seconds
RefreshInterval(leaseSecs) ==
  LET l == IF leaseSecs <= 0 THEN FallbackLeaseSecs ELSE leaseSecs
      half == l \div 2
  IN  IF half < MinRefreshSecs THEN MinRefreshSecs ELSE half

\* getLocalExportableRoutes: one route per exported network of the overlay,
\* with the overlay's lease (drawn non-negative) or its fallback
getLocalExportableRoutes(c) ==
  {[prefix |-> q,
    lease |-> IF c.overlayLeaseSecs = 0 THEN FallbackLeaseSecs
              ELSE c.overlayLeaseSecs] :
     q \in c.exports}

\* "go runRouteRefreshLoop(...)": the tickers are made, the loop waits in its
\* select
StartLoop ==
  /\ loop.pc = "exchange"
  /\ loop.todo = {}
  /\ loop' = [IdleLoop EXCEPT !.pc = "idle"]
  /\ ticker' = [period |-> RefreshInterval(cfg.leaseSecs), elapsed |-> 0,
                fires |-> 0, health |-> 0]
  /\ UNCHANGED <<now, cfg, routes, kernel, conns, srv, tlog, daemon, net, rec, side>>

ProbeOutcomes == {"ok", "unavailable", "timeout"}

\* a probe that succeeds refreshes lastSeen but leaves the health flag
CheckPeerHealth_NoRecovery(cn, out, t) ==
  [p \in PeerIds |->
     IF ~cn[p].present THEN cn[p]
     ELSE IF out[p] = "ok" THEN [cn[p] EXCEPT !.lastSeen = t]
     ELSE IF out[p] = "unavailable" THEN [cn[p] EXCEPT !.healthy = FALSE]
     ELSE cn[p]]

\* Client.CheckPeerHealth: the health flags after probing every peer
\* that has a client
CheckPeerHealth(cn, out, t) ==
  [p \in PeerIds |->
     IF ~cn[p].present THEN cn[p]
     ELSE IF out[p] = "ok" THEN [cn[p] EXCEPT !.healthy = TRUE, !.lastSeen = t]
     ELSE IF out[p] = "unavailable" THEN [cn[p] EXCEPT !.healthy = FALSE]
     ELSE cn[p]]

\* every peer that is unhealthy after the round is reported
NewlyDown_AllUnhealthy(cn, out, t) ==
  {p \in PeerIds : cn[p].present /\ ~CheckPeerHealth(cn, out, t)[p].healthy}

\* Client.CheckPeerHealth: the peers it reports as having just gone down
NewlyDown(cn, out, t) ==
  {p \in PeerIds : cn[p].present /\ cn[p].healthy
                   /\ ~CheckPeerHealth(cn, out, t)[p].healthy}

\* "if len(downPeers) > 0 && flushOnPeerDown"
ShouldFlush(c, down) == Cardinality(down) > 0 /\ c.flushOnPeerDown

\* case <-healthTicker.C: CheckPeerHealth, then the choice to flush
HealthCheck(out) ==
  /\ loop.pc = "idle"
  /\ conns' = CheckPeerHealth(conns, out, now)
  /\ LET down == NewlyDown(conns, out, now) IN
       loop' = [IdleLoop EXCEPT
                  !.pc   = IF ShouldFlush(cfg, down) THEN "flush" ELSE "expire",
                  !.down = down,
                  !.op   = "health",
                  !.sent = {p \in PeerIds : conns[p].present},
                  !.recovered = {p \in PeerIds : conns[p].present /\ ~conns[p].healthy
                                                 /\ conns'[p].healthy},
                  !.todo = IF ShouldFlush(cfg, down) THEN down ELSE {}]
  /\ UNCHANGED <<now, cfg, routes, kernel, srv, tlog, others>>

\* for one down peer: GetByPeer, then RouteManager.Delete per route
FlushPeerKernel(p) ==
  /\ loop.pc = "flush"
  /\ p \in loop.todo
  /\ kernel' = DeleteKernelRoutes(kernel, GetByPeer(routes, p), cfg)
  /\ loop' = [loop EXCEPT !.pc = "flushTable", !.cur = p]
  /\ UNCHANGED <<now, cfg, routes, conns, srv, tlog, others>>

\* for the same peer: "removed := routeTable.RemoveByPeer(peerID)"
FlushPeerTable ==
  /\ loop.pc = "flushTable"
  /\ routes' = RemoveByPeer(routes, loop.cur)
  /\ loop' = [loop EXCEPT
                !.pc = IF loop.todo \ {loop.cur} = {} THEN "expire" ELSE "flush",
                !.todo = loop.todo \ {loop.cur},
                !.flushed = loop.flushed \cup {loop.cur},
                !.removed = RemoveByPeerCount(routes, loop.cur),
                !.cur = ""]
  /\ UNCHANGED <<now, cfg, kernel, conns, srv, tlog, others>>

\* "expiredRoutes := routeTable.ExpireStale()"
ExpireSweep ==
  /\ loop.pc = "expire"
  /\ routes' = ExpireStale(routes, now)
  /\ loop' = [loop EXCEPT !.pc = "expireKernel",
                          !.expired = ExpireStaleRoutes(routes, now)]
  /\ UNCHANGED <<now, cfg, kernel, conns, srv, tlog, others>>

\* "for _, r := range expiredRoutes { ... routeMgr.Delete(...) }"
ExpireKernel ==
  /\ loop.pc = "expireKernel"
  /\ kernel' = DeleteKernelRoutes(kernel, loop.expired, cfg)
  /\ loop' = [loop EXCEPT !.pc = "swept", !.unplugged = kernel \ kernel']
  /\ UNCHANGED <<now, cfg, routes, conns, srv, tlog, others>>

\* the firing is over: back to the select
RoundEnd ==
  /\ loop.pc = "swept"
  /\ loop' = [IdleLoop EXCEPT !.pc = "idle"]
  /\ UNCHANGED <<now, cfg, routes, kernel, conns, srv, tlog, others>>

\* Client.announceToSinglePeer per peer: an error when the RPC fails
\* ("transport") and when the answer has Accepted false ("rejected")
AnnounceFailed(out) == {p \in PeerIds : out[p] \in {"transport", "rejected"}}

\* case <-ticker.C: Client.AnnounceRoutes to every healthy peer; failed is
\* the set of peers whose RPC returns an error
AnnounceTick(failed) ==
  /\ loop.pc = "idle"
  /\ Cardinality(getLocalExportableRoutes(cfg)) > 0
  /\ conns' = [p \in PeerIds |->
                 IF p \notin HealthyPeers(conns) THEN conns[p]
                 ELSE IF p \in failed THEN markPeerUnhealthy(conns, p)[p]
                 ELSE markPeerHealthy(conns, p, now)[p]]
  /\ loop' = [loop EXCEPT !.pc = "called", !.op = "announce",
                          !.sent = HealthyPeers(conns),
                          !.announced = getLocalExportableRoutes(cfg)]
  /\ UNCHANGED <<now, cfg, routes, kernel, srv, tlog, daemon, net, rec, side>>

\* Client.WithdrawRoutes: the RPC to every healthy peer; failed is the set of
\* peers whose RPC returns an error
ClientWithdraw(failed) ==
  /\ loop.pc = "idle"
  /\ conns' = [p \in PeerIds |->
                 IF p \in HealthyPeers(conns) /\ p \in failed
                   THEN markPeerUnhealthy(conns, p)[p]
                   ELSE conns[p]]
  /\ loop' = [loop EXCEPT !.pc = "called", !.op = "withdraw",
                          !.sent = HealthyPeers(conns)]
  /\ UNCHANGED <<now, cfg, routes, kernel, srv, tlog, others>>

\* the client operation has returned: back to the select
ClientReturn ==
  /\ loop.pc = "called"
  /\ loop' = [IdleLoop EXCEPT !.pc = "idle"]
  /\ UNCHANGED <<now, cfg, routes, kernel, conns, srv, tlog, others>>

\* A whole handler adds its routes at one instant, so a batch of n routes
\* leaves what n requests of one route leave: the loop's specification draws
\* single-route requests.
SingleRoute  == {b \in RouteBatches : Len(b) = 1}
SinglePrefix == {b \in PrefixBatches : Len(b) = 1}

\* The client with both peers connected is followed in SpecClient; here one
\* peer is dialled while routes keep arriving from both through the server.
NextLoop ==
  \/ Tick
  \/ \E n \in PeerIds, b \in SingleRoute : ServeRoutes(n, b)
  \/ \E n \in PeerIds, b \in SinglePrefix : ServeWithdraw(n, b)
  \/ \E p \in PeerIds : ConnectToPeers({p})
  \/ \E p \in PeerIds, ok \in BOOLEAN, resp \in SingleRoute \cup {<< >>} :
       ExchangeWithPeer(p, ok, resp)
  \/ StartLoop
  \/ \E out \in [PeerIds -> ProbeOutcomes] : HealthCheck(out)
  \/ \E p \in PeerIds : FlushPeerKernel(p)
  \/ FlushPeerTable
  \/ ExpireSweep
  \/ ExpireKernel
  \/ RoundEnd

\* the daemon under the configuration Defaults() builds: FlushOnPeerDown true
\* and nothing to export, so that the announce ticker has nothing to send
InitLoop == Init /\ cfg.flushOnPeerDown

SpecLoop == InitLoop /\ [][NextLoop]_vars

(* ======================================================================= *)
(* A WithdrawRoutes handler step by step while other RPCs are served: gRPC *)
(* runs every handler on its own goroutine, and each RouteTable method     *)
(* takes the table's lock for itself (SpecRace)                            *)
(* ======================================================================= *)

NextRace ==
  \/ \E s \in Slots, n \in PeerIds, b \in PrefixBatches : RecvWithdraw(s, n, b)
  \/ \E s \in Slots : WithdrawCheck(s)
  \/ \E s \in Slots : WithdrawRemove(s)
  \/ \E s \in Slots : Reply(s)
  \/ \E n \in PeerIds, b \in SingleRoute : ServeRoutes(n, b)

SpecRace == Init /\ [][NextRace]_vars

(* ======================================================================= *)
(* The locks a server handler holds, step by step: the route table's       *)
(* rt.mu inside RouteTable.Add, the server's s.mu around the read of the   *)
(* callback field (SpecLocks)                                              *)
(* ======================================================================= *)

\* the read lock kept until the handler returns ("defer s.mu.RUnlock()")
AfterRUnlock_Deferred(held) == held

\* "s.mu.RUnlock()" right after "callback := s.onRoutesReceived"
AfterRUnlock(held) == held \ {"mu"}

\* RouteTable.Add entered: "rt.mu.Lock()"
AddLock(s) ==
  LET h == srv[s] IN
  /\ h.pc = "ingest" /\ h.idx <= Len(h.reqRoutes) /\ h.held = {}
  /\ srv' = [srv EXCEPT ![s].held = {"rt"}]
  /\ UNCHANGED <<now, cfg, routes, kernel, conns, loop, tlog, others>>

\* RouteTable.Add stores the route and returns: "defer rt.mu.Unlock()";
\* the handler appends the route to incomingRoutes
AddUnlock(s) ==
  LET h == srv[s]
      route == Stamp(h.reqRoutes[h.idx], h.nodeId) IN
  /\ h.pc = "ingest" /\ "rt" \in h.held
  /\ routes' = Add(routes, route, now)
  /\ srv' = [srv EXCEPT ![s].idx = h.idx + 1,
                        ![s].incoming = Append(h.incoming, route),
                        ![s].held = h.held \ {"rt"}]
  /\ UNCHANGED <<now, cfg, kernel, conns, loop, tlog, others>>

\* after the loop: "s.mu.RLock(); callback := s.onRoutesReceived"
ReadCallback(s) ==
  LET h == srv[s] IN
  /\ h.pc = "ingest" /\ h.idx > Len(h.reqRoutes) /\ h.held = {}
  /\ srv' = [srv EXCEPT ![s].pc = "getcb", ![s].held = {"mu"}]
  /\ UNCHANGED <<now, cfg, routes, kernel, conns, loop, tlog, others>>

\* the unlock, then the test that decides whether the callback runs
ReleaseMu(s) ==
  LET h == srv[s] IN
  /\ h.pc = "getcb"
  /\ srv' = [srv EXCEPT ![s].pc = AfterIngest(h.incoming),
                        ![s].held = AfterRUnlock(h.held)]
  /\ UNCHANGED <<now, cfg, routes, kernel, conns, loop, tlog, others>>

NextLocks ==
  \E s \in Slots :
    \/ \E kind \in {"exchange", "announce"}, n \in PeerIds, b \in RouteBatches :
         RecvRoutes(s, kind, n, b)
    \/ AddLock(s)
    \/ AddUnlock(s)
    \/ ReadCallback(s)
    \/ ReleaseMu(s)
    \/ Callback(s)
    \/ Reply(s)

SpecLocks == Init /\ [][NextLocks]_vars

(* ======================================================================= *)
(* Client and coordinator alone: start-up, health rounds, announce ticks,  *)
(* under either setting of the flush flag; routes arrive through the       *)
(* start-up state exchange                                                 *)
(* ======================================================================= *)

NextClient ==
  \/ Tick
  \/ \E d \in SUBSET PeerIds : ConnectToPeers(d)
  \/ \E p \in PeerIds, ok \in BOOLEAN, resp \in SingleRoute \cup {<< >>} :
       ExchangeWithPeer(p, ok, resp)
  \/ StartLoop
  \/ \E out \in [PeerIds -> ProbeOutcomes] : HealthCheck(out)
  \/ \E p \in PeerIds : FlushPeerKernel(p)
  \/ FlushPeerTable
  \/ ExpireSweep
  \/ ExpireKernel
  \/ RoundEnd
  \/ \E f \in SUBSET PeerIds : AnnounceTick(f) /\ UNCHANGED ticker
  \/ \E f \in SUBSET PeerIds : ClientWithdraw(f)
  \/ ClientReturn

SpecClient == Init /\ [][NextClient]_vars

\* the same client whose goroutine and tickers keep running
SpecClientFair == SpecClient /\ WF_vars(NextClient)

(* ======================================================================= *)
(* The announce schedule: the clock in seconds, the ticker of              *)
(* runRouteRefreshLoop made with refreshInterval, the announcement on      *)
(* each firing                                                             *)
(* ======================================================================= *)

\* one second passes while the ticker has not come due
Second ==
  /\ loop.pc = "idle"
  /\ ticker.elapsed < ticker.period
  /\ now' = now + 1
  /\ ticker' = [ticker EXCEPT !.elapsed = ticker.elapsed + 1]
  /\ UNCHANGED <<cfg, routes, kernel, conns, srv, loop, tlog, daemon, net, rec, side>>

\* case <-ticker.C: the ticker fires and starts its next period
TickerFire(failed) ==
  /\ ticker.elapsed = ticker.period
  /\ ticker.fires < MaxFires
  /\ AnnounceTick(failed)
  /\ ticker' = [ticker EXCEPT !.elapsed = 0, !.fires = ticker.fires + 1]

InitSchedule == StartWith(ConfigsWith({TRUE}, LeaseSettings))

NextSchedule ==
  \/ \E d \in SUBSET PeerIds : ConnectToPeers(d)
  \/ \E p \in PeerIds, ok \in BOOLEAN : ExchangeWithPeer(p, ok, << >>)
  \/ StartLoop
  \/ Second
  \/ \E f \in SUBSET PeerIds : TickerFire(f)
  \/ ClientReturn

SpecSchedule == InitSchedule /\ [][NextSchedule]_vars

(* ======================================================================= *)
(* Lease refresh between two hosts configured alike: the sender's announce *)
(* ticker and the receiver's health ticker run in seconds, each in its own *)
(* process and so at any phase to each other; routes is the receiver's     *)
(* table, ticker.health the seconds since the receiver's last sweep        *)
(* (SpecLease)                                                             *)
(* ======================================================================= *)

\* both refresh loops are running: the sender's initial state exchange is due,
\* the receiver's health ticker is phase seconds into its period
LeaseStart(phase) ==
  /\ ticker.period = 0
  /\ ticker' = [period |-> RefreshInterval(cfg.leaseSecs),
                elapsed |-> RefreshInterval(cfg.leaseSecs),
                fires |-> 0, health |-> phase]
  /\ UNCHANGED <<now, cfg, routes, kernel, conns, srv, loop, tlog, daemon, net,
                 rec, side>>

\* a second passes on both hosts while neither ticker is due
LeaseSecond ==
  /\ ticker.period > 0
  /\ ticker.elapsed < ticker.period
  /\ ticker.health < HealthInterval
  /\ now' = now + 1
  /\ ticker' = [ticker EXCEPT !.elapsed = @ + 1, !.health = @ + 1]
  /\ UNCHANGED <<cfg, routes, kernel, conns, srv, loop, tlog, daemon, net, rec,
                 side>>

\* the sender's "case <-ticker.C": its exportable routes reach the receiver's
\* server, which adds them under the sender's id
LeaseAnnounce ==
  /\ ticker.period > 0
  /\ ticker.elapsed = ticker.period
  /\ ticker.fires <= MaxFires
  /\ routes' = [q \in DOMAIN routes \cup cfg.exports |->
                  IF q \in cfg.exports
                    THEN Add(routes,
                             Stamp([prefix |-> q, vni |-> VniOf(q), nextHop |-> "gw",
                                    lease |-> (CHOOSE r \in getLocalExportableRoutes(cfg) :
                                                 r.prefix = q).lease], "A"),
                             now)[q]
                    ELSE routes[q]]
  /\ ticker' = [ticker EXCEPT !.elapsed = 0, !.fires = @ + 1]
  /\ UNCHANGED <<now, cfg, kernel, conns, srv, loop, tlog, daemon, net, rec, side>>

\* the receiver's "case <-healthTicker.C": routeTable.ExpireStale()
LeaseSweep ==
  /\ ticker.period > 0
  /\ ticker.health = HealthInterval
  /\ routes' = ExpireStale(routes, now)
  /\ ticker' = [ticker EXCEPT !.health = 0]
  /\ UNCHANGED <<now, cfg, kernel, conns, srv, loop, tlog, daemon, net, rec, side>>

\* route_lease_seconds set on the overlay too, or on the legacy global key only
InitLease ==
  /\ StartCore(UNION {{[c EXCEPT !.overlayLeaseSecs = o] :
                          o \in {0, Max(0, c.leaseSecs)}} :
                       c \in ConfigsWith({TRUE}, LeaseSettings)},
               {EmptyNet})
  /\ run = IdleRun
  /\ pol = NoPol
  /\ pair = NoPair

NextLease ==
  \/ \E phase \in 0..(HealthInterval - 1) : LeaseStart(phase)
  \/ LeaseSecond
  \/ LeaseAnnounce
  \/ LeaseSweep

SpecLease == InitLease /\ [][NextLease]_vars

(* ======================================================================= *)
(* Shutdown: main after the signal; peers keep calling the server until    *)
(* it has stopped                                                          *)
(* ======================================================================= *)

\* the signal goroutine: "sig := <-sigCh; cancel()"
Signal ==
  /\ daemon.ctx = "live"
  /\ daemon' = [daemon EXCEPT !.ctx = "cancelled",
                              !.steps = Append(daemon.steps, "cancel")]
  /\ UNCHANGED <<now, cfg, routes, kernel, conns, srv, loop, tlog, ticker, net, rec, side>>

\* "table := cfg.Routing.Import.Install.Table; if table == 0 { table = 100 }"
ShutdownTable(c) == IF c.table = 0 THEN DefaultTable ELSE c.table

\* the tables the daemon installs routes into: every overlay's and the fallback
InstallTables(c) ==
  {c.vniToTable[v] : v \in DOMAIN c.vniToTable} \cup {ShutdownTable(c)}

\* RouteManager.FlushByProtocol(table, RouteProtocolNNetMan)
FlushByProtocol(k, table) == {r \in k : r.table # table}

\* main after "<-ctx.Done()": the flush of the installed routes
ShutdownFlush ==
  /\ daemon.ctx = "cancelled"
  /\ ~daemon.flushed
  /\ kernel' = FlushByProtocol(kernel, ShutdownTable(cfg))
  /\ daemon' = [daemon EXCEPT !.flushed = TRUE,
                              !.steps = Append(daemon.steps, "flush")]
  /\ UNCHANGED <<now, cfg, routes, conns, srv, loop, tlog, ticker, net, rec, side>>

\* "defer cpClient.Disconnect()", the last deferred call registered:
\* every connection closed and dropped from the map
Disconnect ==
  /\ daemon.flushed
  /\ daemon.client = "open"
  /\ conns' = [p \in PeerIds |-> NoConn]
  /\ daemon' = [daemon EXCEPT !.client = "closed",
                              !.steps = Append(daemon.steps, "disconnect")]
  /\ UNCHANGED <<now, cfg, routes, kernel, srv, loop, tlog, ticker, net, rec, side>>

\* "defer cpServer.Stop()": GracefulStop returns once no RPC is in flight
ServerStop ==
  /\ daemon.client = "closed"
  /\ daemon.server = "serving"
  /\ \A s \in Slots : srv[s].pc = "idle"
  /\ daemon' = [daemon EXCEPT !.server = "stopped",
                              !.steps = Append(daemon.steps, "serverStop")]
  /\ UNCHANGED <<now, cfg, routes, kernel, conns, srv, loop, tlog, ticker, net, rec, side>>

NextShutdown ==
  \/ Tick
  \/ \E n \in PeerIds, b \in SingleRoute :
       daemon.server = "serving" /\ ServeRoutes(n, b)
  \/ \E d \in SUBSET PeerIds : daemon.ctx = "live" /\ ConnectToPeers(d)
  \/ Signal
  \/ ShutdownFlush
  \/ Disconnect
  \/ ServerStop

SpecShutdown == Init /\ [][NextShutdown]_vars

(* ======================================================================= *)
(* Reconciler: one tick over the overlays, on a host that may already hold *)
(* devices of the same names (SpecReconcile)                               *)
(* ======================================================================= *)

\* a result of a reconciliation step: the host afterwards, whether the step
\* returned nil, and the kernel calls made, in order
StepResult(n, ok, steps) == [net |-> n, ok |-> ok, steps |-> steps]

\* netlink.LinkDel: the device goes, and with it its addresses, its FDB
\* entries and the enslavement of its ports (policy rules name the device
\* and stay)
LinkDel(n, name) ==
  [n EXCEPT !.links = [l \in LinkNames |->
                         IF l = name THEN NoLink
                         ELSE IF n.links[l].master = name
                              THEN [n.links[l] EXCEPT !.master = ""]
                              ELSE n.links[l]],
            !.addrs = {a \in n.addrs : a.dev # name},
            !.fdb   = {e \in n.fdb : e.dev # name}]

\* BridgeManager.Exists
BridgeExists(n, name) == n.links[name].kind = "bridge"

\* "mtu := 1450; if overlay.MTU > 0 { mtu = overlay.MTU }"
BridgeMtu(ov) == IF ov.mtu > 0 THEN ov.mtu ELSE DefaultMtu

BridgeCreate_Recreate(n, name, mtu) ==
  LET d == LinkDel(n, name)
  IN  [d EXCEPT !.links[name] =
         [kind |-> "bridge", vni |-> 0, master |-> "", up |-> TRUE,
          mtu |-> mtu]]

\* BridgeManager.Create: an existing bridge is only brought up, anything else
\* of that name is deleted and the bridge created with the MTU
BridgeCreate(n, name, mtu) ==
  IF n.links[name].kind = "bridge"
  THEN [n EXCEPT !.links[name].up = TRUE]
  ELSE LET d == IF n.links[name].kind # "none" THEN LinkDel(n, name) ELSE n
       IN  [d EXCEPT !.links[name] =
              [kind |-> "bridge", vni |-> 0, master |-> "", up |-> TRUE,
               mtu |-> mtu]]

\* BridgeManager.AddAddress: the address is on the bridge afterwards
AddAddress(n, name, addr) ==
  [n EXCEPT !.addrs = n.addrs \cup {[dev |-> name, addr |-> addr]}]

\* reconcileBridgeForOverlay; fail names the kernel call that returns an error
reconcileBridgeForOverlay(n, ov, fail) ==
  LET n1 == IF ov.manage THEN BridgeCreate(n, ov.bridge, BridgeMtu(ov))
            ELSE IF ~BridgeExists(n, ov.bridge)
                 THEN BridgeCreate(n, ov.bridge, BridgeMtu(ov))
            ELSE n
  IN  IF fail = "bridge" THEN StepResult(n, FALSE, <<"bridge">>)
      ELSE IF ov.ipv4 = "" THEN StepResult(n1, TRUE, <<"bridge">>)
      ELSE IF fail = "addr" THEN StepResult(n1, FALSE, <<"bridge", "addr">>)
      ELSE StepResult(AddAddress(n1, ov.bridge, ov.ipv4), TRUE,
                      <<"bridge", "addr">>)

\* VXLANManager.AttachToBridge
AttachToBridge(n, vx, br) ==
  IF n.links[vx].kind = "none" \/ n.links[br].kind # "bridge"
  THEN StepResult(n, FALSE, <<"attach">>)
  ELSE StepResult([n EXCEPT !.links[vx].master = br], TRUE, <<"attach">>)

\* VXLANManager.Create: a VXLAN of that name and VNI is only brought up;
\* anything else of that name is deleted, the device created, brought up
\* and attached to the bridge
VXLANCreate(n, ov, fail) ==
  IF n.links[ov.name].kind = "vxlan" /\ n.links[ov.name].vni = ov.vni
  THEN StepResult([n EXCEPT !.links[ov.name].up = TRUE], TRUE, <<"vxlan">>)
  ELSE LET d == IF n.links[ov.name].kind # "none" THEN LinkDel(n, ov.name)
                ELSE n
           c == [d EXCEPT !.links[ov.name] =
                   [kind |-> "vxlan", vni |-> ov.vni, master |-> "",
                    up |-> TRUE,
                    mtu |-> IF ov.mtu = 0 THEN DefaultMtu ELSE ov.mtu]]
           a == IF fail = "attach" THEN StepResult(c, FALSE, <<"attach">>)
                ELSE AttachToBridge(c, ov.name, ov.bridge)
       IN  IF ov.bridge # ""
           THEN StepResult(a.net, a.ok, <<"vxlan">> \o a.steps)
           ELSE StepResult(c, TRUE, <<"vxlan">>)

\* reconcileVXLANForOverlay
reconcileVXLANForOverlay(n, ov, fail) ==
  IF fail = "vxlan" THEN StepResult(n, FALSE, <<"vxlan">>)
  ELSE VXLANCreate(n, ov, fail)

\* FDBManager.List: the remote address of every entry of the device that
\* has one, whatever its MAC
FDBList(n, vx) == {e.dst : e \in {x \in n.fdb : x.dev = vx}}

\* FDBManager.AddPeer: "bridge fdb append 00:00:00:00:00:00 dev vx dst ip"
AddPeer(n, vx, ip) ==
  [n EXCEPT !.fdb = n.fdb \cup {[dev |-> vx, mac |-> "zero", dst |-> ip]}]

\* FDBManager.DeletePeer: deletes the all-zero entry to ip; a missing entry
\* is not an error
DeletePeer(n, vx, ip) ==
  [n EXCEPT !.fdb = n.fdb \ {[dev |-> vx, mac |-> "zero", dst |-> ip]}]

RECURSIVE AddPeers(_, _, _)
AddPeers(n, vx, ips) ==
  IF ips = {} THEN n
  ELSE LET ip == CHOOSE x \in ips : TRUE
       IN  AddPeers(AddPeer(n, vx, ip), vx, ips \ {ip})

RECURSIVE DeletePeers(_, _, _)
DeletePeers(n, vx, ips) ==
  IF ips = {} THEN n
  ELSE LET ip == CHOOSE x \in ips : TRUE
       IN  DeletePeers(DeletePeer(n, vx, ip), vx, ips \ {ip})

\* FDBManager.SyncPeers: AddPeer for the desired addresses List did not
\* return, DeletePeer for the listed addresses no longer desired
SyncPeers(n, vx, desired) ==
  IF n.links[vx].kind = "none" THEN StepResult(n, FALSE, <<"fdb">>)
  ELSE LET current == FDBList(n, vx)
       IN  StepResult(DeletePeers(AddPeers(n, vx, desired \ current),
                                  vx, current \ desired),
                      TRUE, <<"fdb">>)

\* reconcileFDBForOverlay
reconcileFDBForOverlay(n, ov, fail) ==
  IF ov.bum = "multicast" THEN StepResult(n, TRUE, << >>)
  ELSE IF fail = "fdb" THEN StepResult(n, FALSE, <<"fdb">>)
  ELSE SyncPeers(n, ov.name, PeerAddrs)

\* a policy rule "ip rule add <dir> <dev> lookup <table> priority <prio>"
Rule(dir, dev, table, prio) ==
  [dir |-> dir, dev |-> dev, table |-> table, prio |-> prio]

addRuleViaCLI_Duplicate(n, dir, dev, table, prio) ==
  [n EXCEPT !.rules[Rule(dir, dev, table, prio)] = @ + 1]

\* addRuleViaCLI: the kernel refuses a rule it already has ("File exists"),
\* which is not an error
addRuleViaCLI(n, dir, dev, table, prio) ==
  IF n.rules[Rule(dir, dev, table, prio)] > 0 THEN n
  ELSE [n EXCEPT !.rules[Rule(dir, dev, table, prio)] = 1]

\* EnsureRuleByInterface: the iif rule at RulePriority, the oif rule at the
\* next priority
EnsureRuleByInterface(n, br, table) ==
  IF n.links[br].kind = "none" THEN StepResult(n, FALSE, <<"rules">>)
  ELSE StepResult(addRuleViaCLI(addRuleViaCLI(n, "iif", br, table,
                                              RulePriority),
                                "oif", br, table, RulePriority + 1),
                  TRUE, <<"rules">>)

\* the policy-rule step of an overlay's cycle
reconcileRulesForOverlay(n, ov, fail) ==
  IF ~ov.lookupRules THEN StepResult(n, TRUE, << >>)
  ELSE IF fail = "rules" THEN StepResult(n, FALSE, <<"rules">>)
  ELSE EnsureRuleByInterface(n, ov.bridge, ov.table)

\* a step after the steps before it: skipped when they failed
Then(before, after) ==
  IF ~before.ok THEN before
  ELSE StepResult(after.net, after.ok, before.steps \o after.steps)

reconcileOverlay_IgnoreErrors(n, ov, fail) ==
  LET b == reconcileBridgeForOverlay(n, ov, fail)
      v == reconcileVXLANForOverlay(b.net, ov, fail)
      f == reconcileFDBForOverlay(v.net, ov, fail)
      r == reconcileRulesForOverlay(f.net, ov, fail)
  IN  StepResult(r.net, b.ok /\ v.ok /\ f.ok /\ r.ok,
                 b.steps \o v.steps \o f.steps \o r.steps)

\* reconcileOverlay: bridge (and its addresses), then VXLAN (and its
\* attachment), then FDB, then policy rules; the first error ends it
reconcileOverlay(n, ov, fail) ==
  LET b == reconcileBridgeForOverlay(n, ov, fail)
      v == Then(b, reconcileVXLANForOverlay(b.net, ov, fail))
      f == Then(v, reconcileFDBForOverlay(v.net, ov, fail))
  IN  Then(f, reconcileRulesForOverlay(f.net, ov, fail))

\* the kernel calls of one overlay's cycle that can return an error
FailPoints == {"bridge", "addr", "vxlan", "attach", "fdb", "rules"}

RECURSIVE ReconcileFrom(_, _, _, _, _, _)
\* Reconciler.Reconcile from overlay i on: the loop over the overlays, which
\* returns at the first overlay whose cycle fails
ReconcileFrom(n, i, failAt, fail, visited, trace) ==
  IF i > Len(OverlayDefs)
  THEN [net |-> n, failed |-> 0, visited |-> visited, trace |-> trace]
  ELSE LET r == reconcileOverlay(n, OverlayDefs[i],
                                 IF i = failAt THEN fail ELSE "none")
           t == [trace EXCEPT ![i] = r.steps]
       IN  IF ~r.ok
           THEN [net |-> r.net, failed |-> i, visited |-> visited \cup {i},
                 trace |-> t]
           ELSE ReconcileFrom(r.net, i + 1, failAt, fail, visited \cup {i}, t)

\* one tick of Reconciler.Run (or RunOnce): Reconcile over all overlays;
\* failAt = 0 is a tick in which no kernel call fails. rec.failed is the
\* overlay lastErr names (0 for nil), rec.okRun counts the ticks since the
\* last failed one, rec.trace the kernel calls of the tick per overlay and
\* rec.inj the call that was made to fail
Reconcile(failAt, fail) ==
  /\ rec.ticks < MaxTicks
  /\ LET r == ReconcileFrom(net, 1, failAt, fail, {}, NoTrace)
     IN  /\ net' = r.net
         /\ rec' = [ticks |-> rec.ticks + 1, failed |-> r.failed,
                    visited |-> r.visited,
                    okRun |-> IF r.failed = 0 THEN rec.okRun + 1 ELSE 0,
                    trace |-> r.trace,
                    inj |-> [at |-> failAt, step |-> fail]]
  /\ UNCHANGED <<now, cfg, routes, kernel, conns, srv, loop, tlog, ticker,
                 daemon, side>>

\* what may be on the host when the daemon starts: per overlay, the bridge
\* name free, taken by another kind of device, or a bridge (down, or with
\* another MTU); the VXLAN name free, a VXLAN of another VNI, or the
\* overlay's VXLAN, attached or not; FDB entries on it, all-zero ones for a
\* configured peer or a peer since removed, learned ones towards a peer;
\* policy rules of an earlier run. The bridge of an overlay the KVM section
\* does not manage is either absent or in place
BridgeStates(ov) ==
  IF ~ov.manage
  THEN {NoLink,
        [kind |-> "bridge", vni |-> 0, master |-> "", up |-> TRUE,
         mtu |-> DefaultMtu]}
  ELSE
  {NoLink,
   [kind |-> "dummy", vni |-> 0, master |-> "", up |-> TRUE,
    mtu |-> DefaultMtu],
   [kind |-> "bridge", vni |-> 0, master |-> "", up |-> FALSE,
    mtu |-> DefaultMtu],
   [kind |-> "bridge", vni |-> 0, master |-> "", up |-> TRUE,
    mtu |-> DefaultMtu],
   [kind |-> "bridge", vni |-> 0, master |-> "", up |-> TRUE,
    mtu |-> DefaultMtu + 50]}

VxlanStates(ov, br) ==
  {NoLink,
   [kind |-> "vxlan", vni |-> ov.vni + 1, master |-> "", up |-> TRUE,
    mtu |-> DefaultMtu],
   [kind |-> "vxlan", vni |-> ov.vni, master |-> "", up |-> FALSE,
    mtu |-> DefaultMtu],
   [kind |-> "vxlan", vni |-> ov.vni,
    master |-> IF br.kind = "bridge" THEN ov.bridge ELSE "", up |-> TRUE,
    mtu |-> DefaultMtu]}

FdbStates(ov, vx) ==
  IF vx.kind = "none" THEN {{}}
  ELSE IF ov.bum = "multicast"
  THEN SUBSET {[dev |-> ov.name, mac |-> "zero", dst |-> "gone"]}
  ELSE SUBSET {[dev |-> ov.name, mac |-> "zero", dst |-> "A"],
               [dev |-> ov.name, mac |-> "zero", dst |-> "gone"],
               [dev |-> ov.name, mac |-> "learned", dst |-> "A"]}

AddrStates(ov, br) ==
  IF br.kind = "none" \/ ov.ipv4 = "" THEN {{}}
  ELSE {{}, {[dev |-> ov.bridge, addr |-> ov.ipv4]}}

RuleStates ==
  LET o == OverlayDefs[1]
      iif == Rule("iif", o.bridge, o.table, RulePriority)
      oif == Rule("oif", o.bridge, o.table, RulePriority + 1)
  IN  {NoRules,
       [NoRules EXCEPT ![iif] = 1],
       [NoRules EXCEPT ![iif] = 1, ![oif] = 1]}

\* the devices, addresses and FDB entries one overlay may find at start
OverlayStates(ov) ==
  UNION {UNION {{[br |-> b, vx |-> v, addrs |-> a, fdb |-> f] :
                   a \in AddrStates(ov, b), f \in FdbStates(ov, v)} :
                v \in VxlanStates(ov, b)} :
         b \in BridgeStates(ov)}

HostStates ==
  LET o1 == OverlayDefs[1]
      o2 == OverlayDefs[2]
  IN  {[links |-> (o1.bridge :> s1.br) @@ (o1.name :> s1.vx)
                    @@ (o2.bridge :> s2.br) @@ (o2.name :> s2.vx),
        addrs |-> s1.addrs \cup s2.addrs,
        fdb   |-> s1.fdb \cup s2.fdb,
        rules |-> rs] :
         s1 \in OverlayStates(o1), s2 \in OverlayStates(o2),
         rs \in RuleStates}

InitReconcile == StartOn(ConfigsWith({TRUE}, {DefaultLeaseSecs}), HostStates)

NextReconcile ==
  \/ Reconcile(0, "none")
  \/ \E i \in OverlayIdx, f \in FailPoints : Reconcile(i, f)

SpecReconcile == InitReconcile /\ [][NextReconcile]_vars

(* ======================================================================= *)
(* Reconciler.Run called twice on one Reconciler, a sweep taken one        *)
(* overlay at a time (SpecRun)                                             *)
(* ======================================================================= *)

AlreadyRunning_Never(rn) == FALSE

\* "if r.running { ... return fmt.Errorf("reconciler already running") }"
AlreadyRunning(rn) == rn.running

\* Reconcile entered: "r.lastRun = time.Now()", the loop at the first overlay
BeginSweep(r) ==
  /\ run' = [run EXCEPT !.running = TRUE, !.pc[r] = "sweep", !.idx[r] = 1]
  /\ rec' = [rec EXCEPT !.ticks = rec.ticks + 1, !.visited = {},
                        !.trace = NoTrace,
                        !.inj = [at |-> 0, step |-> "none"]]

\* Run called: under r.mu, refused when the loop is active, otherwise the
\* flag is set and the initial reconciliation starts
RunStart(r) ==
  /\ run.pc[r] = "idle"
  /\ rec.ticks < MaxTicks
  /\ IF AlreadyRunning(run)
     THEN /\ run' = [run EXCEPT !.pc[r] = "rejected"]
          /\ UNCHANGED rec
     ELSE BeginSweep(r)
  /\ UNCHANGED <<now, cfg, routes, kernel, conns, srv, loop, tlog, ticker,
                 daemon, net, pol, pair>>

\* one pass of the loop in Reconcile: reconcileOverlay on the next overlay;
\* an error or the end of the list ends the sweep
SweepOverlay(r, fail) ==
  /\ run.pc[r] = "sweep"
  /\ LET i   == run.idx[r]
         res == reconcileOverlay(net, OverlayDefs[i], fail)
         end == ~res.ok \/ i = Len(OverlayDefs)
     IN  /\ net' = res.net
         /\ run' = [run EXCEPT !.pc[r] = IF end THEN "wait" ELSE "sweep",
                               !.idx[r] = IF end THEN 0 ELSE i + 1]
         /\ rec' = [rec EXCEPT
                      !.visited = rec.visited \cup {i},
                      !.trace[i] = res.steps,
                      !.inj = IF fail = "none" THEN rec.inj
                              ELSE [at |-> i, step |-> fail],
                      !.failed = IF ~res.ok THEN i
                                 ELSE IF end THEN 0 ELSE rec.failed,
                      !.okRun = IF ~res.ok THEN 0
                                ELSE IF end THEN rec.okRun + 1
                                ELSE rec.okRun]
  /\ UNCHANGED <<now, cfg, routes, kernel, conns, srv, loop, tlog, ticker,
                 daemon, pol, pair>>

\* "case <-ticker.C": the next sweep of the caller that holds the loop
RunTick(r) ==
  /\ run.pc[r] = "wait"
  /\ rec.ticks < MaxTicks
  /\ BeginSweep(r)
  /\ UNCHANGED <<now, cfg, routes, kernel, conns, srv, loop, tlog, ticker,
                 daemon, net, pol, pair>>

\* "case <-ctx.Done()": Run returns and its deferred function clears the flag
RunStop(r) ==
  /\ run.pc[r] = "wait"
  /\ daemon.ctx = "cancelled"
  /\ run' = [run EXCEPT !.running = FALSE, !.pc[r] = "returned"]
  /\ UNCHANGED <<now, cfg, routes, kernel, conns, srv, loop, tlog, ticker,
                 daemon, net, rec, pol, pair>>

NextRun ==
  \/ \E r \in Runners : RunStart(r)
  \/ \E r \in Runners, f \in FailPoints \cup {"none"} : SweepOverlay(r, f)
  \/ \E r \in Runners : RunTick(r)
  \/ \E r \in Runners : RunStop(r)
  \/ Signal

SpecRun == Init /\ [][NextRun]_vars

(* ======================================================================= *)
(* routing.Manager: the import filter of an overlay (SpecPolicy)           *)
(* ======================================================================= *)

RECURSIVE Pow2(_)
Pow2(n) == IF n = 0 THEN 1 ELSE 2 * Pow2(n - 1)

\* the CIDR strings of a route or a policy: an address with a prefix length
\* (host bits may be set), or a string that does not parse
Cidrs ==
  {[ok |-> TRUE, addr |-> a, len |-> l] :
     a \in 0..(Pow2(AddrBits) - 1), l \in 0..AddrBits} \cup {BadCidr}

\* IP.Mask: the address with the bits after the prefix length cleared
Mask(a, l) == (a \div Pow2(AddrBits - l)) * Pow2(AddrBits - l)

\* net.ParseCIDR of a string that parses: the network, its address masked
ParseCIDR(c) == [addr |-> Mask(c.addr, c.len), len |-> c.len]

\* IPNet.Contains
Contains(n, ip) == Mask(ip, n.len) = n.addr

\* matchesPrefix: the policy prefix parses, contains the route's network
\* address and is no longer than the route's prefix
matchesPrefix(routeNet, policyPrefix) ==
  /\ policyPrefix.ok
  /\ LET policyNet == ParseCIDR(policyPrefix)
     IN  /\ Contains(policyNet, routeNet.addr)
         /\ policyNet.len <= routeNet.len

ShouldImportForOverlay_AcceptFirst(route, deny, allow, acceptAll) ==
  /\ route.ok
  /\ \/ acceptAll
     \/ /\ \A j \in 1..Len(deny) : ~matchesPrefix(ParseCIDR(route), deny[j])
        /\ \E j \in 1..Len(allow) : matchesPrefix(ParseCIDR(route), allow[j])

\* Manager.ShouldImportForOverlay: false for a prefix that does not parse;
\* false when a deny prefix matches; else true under accept_all; else true
\* when an allow prefix matches
ShouldImportForOverlay(route, deny, allow, acceptAll) ==
  /\ route.ok
  /\ \A j \in 1..Len(deny) : ~matchesPrefix(ParseCIDR(route), deny[j])
  /\ \/ acceptAll
     \/ \E j \in 1..Len(allow) : matchesPrefix(ParseCIDR(route), allow[j])

\* overlay.Routing.Import.Deny
DenyLists == UNION {[1..n -> Cidrs] : n \in 0..MaxDeny}

\* overlay.Routing.Import.Allow: empty, or one prefix at address 0
AllowLists == {<< >>} \cup {<<c>> : c \in {x \in Cidrs : x.addr = 0}}

InitPolicy ==
  /\ StartCore(ConfigsWith({TRUE}, {DefaultLeaseSecs}), {EmptyNet})
  /\ run = IdleRun
  /\ pair = NoPair
  /\ pol \in {[asked |-> FALSE, route |-> r, deny |-> d, allow |-> a,
                acceptAll |-> x, answer |-> FALSE] :
                r \in Cidrs, d \in DenyLists, a \in AllowLists,
                x \in BOOLEAN}

\* the filter asked about the route
AskImport ==
  /\ ~pol.asked
  /\ pol' = [pol EXCEPT !.asked = TRUE,
                        !.answer = ShouldImportForOverlay(pol.route, pol.deny,
                                                          pol.allow,
                                                          pol.acceptAll)]
  /\ UNCHANGED <<now, cfg, routes, kernel, conns, srv, loop, tlog, ticker,
                 daemon, net, rec, run, pair>>

NextPolicy == AskImport

SpecPolicy == InitPolicy /\ [][NextPolicy]_vars

(* ======================================================================= *)
(* Received routes on their way into the kernel: requests whose routes may *)
(* not parse, under two overlays and an import policy (SpecInstall)        *)
(* ======================================================================= *)

\* the CIDR string behind a prefix of the model: "p1" a short prefix in the
\* upper half of the address space, "p2" a host route
PrefixCidr(q) ==
  IF q = "p1" THEN [ok |-> TRUE, addr |-> Pow2(AddrBits - 1), len |-> 1]
  ELSE IF q = "p2" THEN [ok |-> TRUE, addr |-> 0, len |-> AddrBits]
  ELSE BadCidr

\* routing.import with "accept_all: true" and "deny: [0.0.0.0/0]"
DenyAllPolicy ==
  [acceptAll |-> TRUE, deny |-> <<[ok |-> TRUE, addr |-> 0, len |-> 0]>>,
   allow |-> << >>]

\* overlays VNI 100 -> table 100 and VNI 200 -> table 200, the global table
\* as fallback; the overlays' import policy accepts all or denies all
InstallConfigs ==
  {[c EXCEPT !.vniToTable = (100 :> 100) @@ (200 :> 200), !.import = i] :
     c \in ConfigsWith({TRUE}, {DefaultLeaseSecs}),
     i \in {AcceptAllPolicy, DenyAllPolicy}}

\* pb.Route as a peer may send it: any prefix or next hop, parseable or not,
\* under the VNI of an overlay or an unknown one
WireRoute(q, v, h) == [prefix |-> q, lease |-> 0, vni |-> v, nextHop |-> h]

\* requests of one or two routes
WireBatches ==
  LET WirePayload ==
        {WireRoute("p1", 100, "gw"), WireRoute("p1", 200, "gw"),
         WireRoute("p2", 200, "gw"), WireRoute("p2", 999, "gw"),
         WireRoute("bad", 100, "gw"), WireRoute("p1", 100, "bad")}
  IN  UNION {[1..n -> WirePayload] : n \in 1..2}

InitInstall == StartOn(InstallConfigs, {EmptyNet})

NextInstall == \E b \in WireBatches : ServeRoutes("A", b)

SpecInstall == InitInstall /\ [][NextInstall]_vars

(* ======================================================================= *)
(* Two daemons A and B that list each other as peer and export one prefix  *)
(* each (SpecPair): servers, initial exchange, health and refresh tickers  *)
(* ======================================================================= *)

notPair == <<now, cfg, routes, kernel, conns, srv, loop, tlog, ticker, daemon,
             net, rec, run, pol>>

Other(d) == IF d = "A" THEN "B" ELSE "A"

\* overlay.Bridge.IPv4 of the host, without its mask
BridgeIP(d) == IF d = "A" THEN "10.100.0.1" ELSE "10.100.0.2"

\* overlay.Routing.Export.Networks of the host
ExportOf(d) == IF d = "A" THEN "172.16.10.0/24" ELSE "172.16.20.0/24"

\* getLocalExportableRoutes on host d: the exported network with the bridge
\* IP as next hop, under the overlay's VNI; PeerID is left empty
LocalRoutes(d) ==
  {[prefix |-> ExportOf(d), nextHop |-> BridgeIP(d), vni |-> 100, peerID |-> ""]}

\* the VNI a route has after the RPC: pb.Route carries it over unchanged
WireVni(r) == r.vni

\* the handler's copy of a request's routes, with "PeerID: req.NodeId"
From(rs, sender) ==
  {[r EXCEPT !.peerID = sender, !.vni = WireVni(r)] : r \in rs}

\* RouteTable.Add for every route: one entry per prefix, the newer wins
AddAll(t, rs) ==
  {x \in t : \A r \in rs : r.prefix # x.prefix} \cup rs

\* nlmgr.RouteConfig{Destination, Gateway, Table, Protocol} handed to Replace
PairKRoute(r) ==
  [dst |-> r.prefix, via |-> r.nextHop, table |-> TableForVni(cfg, r.vni),
   proto |-> RouteProtocolNNetMan]

\* "if callback != nil && len(incomingRoutes) > 0 { callback(incomingRoutes) }",
\* the callback being installReceivedRoutes on the routes of the request
PairCallback(k, rs) ==
  IF rs = {} THEN k ELSE k \cup {PairKRoute(r) : r \in rs}

\* the server of host d is started and the other host reaches it
Answers(d) == pair.reach[d] /\ pair.up[d]

\* cpServer.Start() and the start of the client goroutine, which sleeps
PairStart(d) ==
  /\ pair.pc[d] = "off"
  /\ pair' = [pair EXCEPT !.up[d] = TRUE, !.pc[d] = "sleep",
                          !.first = IF @ = "none" THEN d ELSE @]
  /\ UNCHANGED notPair

\* Client.ConnectToPeers: grpc.DialContext without WithBlock returns a
\* connection whether or not the peer listens
PairConnect(d) ==
  /\ pair.pc[d] = "sleep"
  /\ pair' = [pair EXCEPT
               !.conns[d][Other(d)] =
                  [present |-> TRUE, healthy |-> TRUE, lastSeen |-> now],
               !.pc[d] = "exchange"]
  /\ UNCHANGED notPair

\* Server.ExchangeState / Server.AnnounceRoutes on host d for a request of
\* sender: Add every route, then the callback
Served(pr, d, sender, rs) ==
  [pr EXCEPT !.table[d]  = AddAll(@, From(rs, sender)),
             !.kernel[d] = PairCallback(@, From(rs, sender))]

\* the healthy flag never comes back after a failed call
PairProbe_NoRecovery(cn, p, answers, out) ==
  IF ~answers /\ out = "unavailable" THEN markPeerUnhealthy(cn, p) ELSE cn

\* one peer's round of Client.CheckPeerHealth
PairProbe(cn, p, answers, out) ==
  CheckPeerHealth(cn, [q \in PeerIds |->
                         IF q = p /\ answers THEN "ok" ELSE out], now)

\* Client.ExchangeStateWithPeers with the local routes: the peer's server
\* ingests and installs them and answers with its exportable routes, which
\* exchangeWithPeer only adds to the route table; a failed call marks the
\* peer unhealthy
PairExchange(d) ==
  LET p == Other(d) IN
  /\ pair.pc[d] = "exchange"
  /\ IF p \in HealthyPeers(pair.conns[d])
       THEN IF Answers(p)
              THEN LET served == Served(pair, p, d, LocalRoutes(d))
                       \* Server.getExportableRoutes: routes without PeerID
                       resp   == {r \in served.table[p] : r.peerID = ""}
                   IN  pair' = [served EXCEPT
                                  !.table[d] = AddAll(@, From(resp, p)),
                                  !.conns[d] = markPeerHealthy(@, p, now),
                                  !.pc[d] = "loop"]
              ELSE pair' = [pair EXCEPT
                              !.conns[d] = markPeerUnhealthy(@, p),
                              !.missed[d] = TRUE,
                              !.pc[d] = "loop"]
       ELSE pair' = [pair EXCEPT !.pc[d] = "loop"]
  /\ UNCHANGED notPair

\* case <-healthTicker.C on host d: the probe is an ExchangeState without
\* routes; the routes of a peer that just went down leave kernel and table
PairHealthTick(d, out) ==
  LET p    == Other(d)
      cn   == PairProbe(pair.conns[d], p, Answers(p), out)
      down == pair.conns[d][p].present /\ pair.conns[d][p].healthy
              /\ ~cn[p].healthy /\ cfg.flushOnPeerDown
      gone == {r \in pair.table[d] : r.peerID = p}
  IN
  /\ pair.pc[d] = "loop"
  /\ pair' = [pair EXCEPT
               !.conns[d]  = cn,
               !.kernel[d] = IF down THEN @ \ {PairKRoute(r) : r \in gone} ELSE @,
               !.table[d]  = IF down THEN @ \ gone ELSE @]
  /\ UNCHANGED notPair

\* case <-ticker.C on host d: Client.AnnounceRoutes of the local routes to
\* the healthy peers
PairRefreshTick(d) ==
  LET p == Other(d) IN
  /\ pair.pc[d] = "loop"
  /\ LocalRoutes(d) # {}
  /\ IF p \in HealthyPeers(pair.conns[d])
       THEN IF Answers(p)
              THEN pair' = [Served(pair, p, d, LocalRoutes(d)) EXCEPT
                              !.conns[d] = markPeerHealthy(@, p, now)]
              ELSE pair' = [pair EXCEPT !.conns[d] = markPeerUnhealthy(@, p)]
       ELSE pair' = pair
  /\ UNCHANGED notPair

\* the path towards host d comes up
PairHeal(d) ==
  /\ ~pair.reach[d]
  /\ pair' = [pair EXCEPT !.reach[d] = TRUE]
  /\ UNCHANGED notPair

InitPair ==
  /\ StartCore(ConfigsWith({TRUE}, {DefaultLeaseSecs}), {EmptyNet})
  /\ run = IdleRun
  /\ pol = NoPol
  /\ pair \in {[NoPair EXCEPT !.reach = b] : b \in [PeerIds -> BOOLEAN]}

NextPair ==
  \/ \E d \in PeerIds : PairStart(d)
  \/ \E d \in PeerIds : PairConnect(d)
  \/ \E d \in PeerIds : PairExchange(d)
  \/ \E d \in PeerIds : \E out \in {"unavailable", "timeout"} : PairHealthTick(d, out)
  \/ \E d \in PeerIds : PairRefreshTick(d)
  \/ \E d \in PeerIds : PairHeal(d)

\* both programs get started, goroutines run, tickers keep firing and the
\* select serves each of them, the paths between the hosts come up
PairFairness ==
  /\ \A d \in PeerIds : WF_vars(PairStart(d))
  /\ \A d \in PeerIds : WF_vars(PairConnect(d))
  /\ \A d \in PeerIds : WF_vars(PairExchange(d))
  /\ \A d \in PeerIds :
       WF_vars(\E out \in {"unavailable", "timeout"} : PairHealthTick(d, out))
  /\ \A d \in PeerIds : WF_vars(PairRefreshTick(d))
  /\ \A d \in PeerIds : WF_vars(PairHeal(d))

SpecPair == InitPair /\ [][NextPair]_vars /\ PairFairness

(* ======================================================================= *)
(* Properties                                                              *)
(* ======================================================================= *)

\* the prefix a WithdrawRoutes handler is about to look up
AtPrefix(h) == h.reqPrefixes[h.idx]

\* C1: a WithdrawRoutes handler for node_id X that looks up a listed prefix
\* whose entry is owned by another peer Y leaves the route table unchanged,
\* counts nothing and never goes on to remove that entry.
C1_WithdrawScoping ==
  [][\A s \in Slots :
       ( /\ srv[s].kind = "withdraw"
         /\ srv[s].pc = "wcheck"
         /\ srv[s].idx <= Len(srv[s].reqPrefixes)
         /\ Has(routes, AtPrefix(srv[s]))
         /\ routes[AtPrefix(srv[s])].peerID # srv[s].nodeId
         /\ srv'[s] # srv[s] )
       => ( /\ routes' = routes
            /\ srv'[s].pc = "wcheck"
            /\ srv'[s].idx = srv[s].idx + 1
            /\ srv'[s].count = srv[s].count )]_vars

\* a withdrawal by one peer of a prefix owned by the other has been answered
\* with nothing removed, and the entry is still there under its owner
C1_Witness ==
  \E s \in Slots :
    /\ srv[s].kind = "withdraw"
    /\ srv[s].pc = "reply"
    /\ Len(srv[s].reqPrefixes) = 1
    /\ srv[s].count = 0
    /\ Has(routes, srv[s].reqPrefixes[1])
    /\ routes[srv[s].reqPrefixes[1]].peerID # srv[s].nodeId
    /\ routes[srv[s].reqPrefixes[1]].peerID \in PeerIds

\* C2: every route an ExchangeState or AnnounceRoutes handler adds for a
\* request with node_id N is in the table with peer_id N right after the Add,
\* and the copy kept for the callback carries the same peer_id.
C2_StampedWithSender ==
  [][\A s \in Slots :
       ( /\ srv[s].pc = "ingest"
         /\ srv[s].idx <= Len(srv[s].reqRoutes)
         /\ srv'[s] # srv[s] )
       => LET q == srv[s].reqRoutes[srv[s].idx].prefix
              n == Len(srv'[s].incoming)
          IN /\ Has(routes', q)
             /\ routes'[q].peerID = srv[s].nodeId
             /\ n = srv[s].idx
             /\ srv'[s].incoming[n].peerID = srv[s].nodeId
             /\ srv'[s].incoming[n].prefix = q]_vars

\* an ExchangeState handler has ingested a whole two-route request of peer B
C2_Witness ==
  \E s \in Slots :
    /\ srv[s].kind = "exchange"
    /\ srv[s].nodeId = "B"
    /\ srv[s].pc = "callback"
    /\ Len(srv[s].incoming) = 2
    /\ \A i \in 1..2 : routes[srv[s].reqRoutes[i].prefix].peerID = "B"

\* C3: add overwrites: after add(r) the entry for r.prefix is r with r's
\* peer_id, whatever entry the prefix had before and whoever owned it, and
\* every other entry is as it was.
C3_LastWriterWins ==
  tlog.op = "add" =>
    /\ DOMAIN routes = (DOMAIN tlog.before) \cup {tlog.prefix}
    /\ routes[tlog.prefix].peerID = tlog.peerID
    /\ routes[tlog.prefix].receivedAt = tlog.at
    /\ \A q \in (DOMAIN routes) \ {tlog.prefix} : routes[q] = tlog.before[q]

\* add by B over an entry that A owned
C3_Witness ==
  /\ tlog.op = "add"
  /\ tlog.peerID = "B"
  /\ Has(tlog.before, tlog.prefix)
  /\ tlog.before[tlog.prefix].peerID = "A"
  /\ routes[tlog.prefix].peerID = "B"

\* C4: expire_stale() removes exactly the entries whose expires_at is set and
\* earlier than the time of the call, returns exactly those routes, and leaves
\* every other entry untouched; an entry added at t0 with lease L > 0 survives
\* a call at time t iff t <= t0 + L.
C4_ExpireStaleExact ==
  tlog.op = "expireStale" =>
    LET gone == {q \in DOMAIN tlog.before :
                   /\ tlog.before[q].expiresAt # ZeroTime
                   /\ tlog.before[q].expiresAt < tlog.at}
    IN /\ DOMAIN routes = (DOMAIN tlog.before) \ gone
       /\ \A q \in DOMAIN routes : routes[q] = tlog.before[q]
       /\ tlog.returned = {tlog.before[q] : q \in gone}
       /\ tlog.count = Cardinality(gone)
       /\ \A q \in DOMAIN tlog.before :
            tlog.before[q].lease > 0 =>
              (q \in DOMAIN routes <=>
                 tlog.at <= tlog.before[q].receivedAt + tlog.before[q].lease)

\* one sweep returned a route whose lease was over and left in place a route
\* whose lease ends at the very time of the call
C4_Witness ==
  /\ tlog.op = "expireStale"
  /\ tlog.returned # {}
  /\ \E q \in DOMAIN routes :
       /\ routes[q].lease > 0
       /\ routes[q].expiresAt = tlog.at
  /\ \A r \in tlog.returned : ~Has(routes, r.prefix)

\* C5: when a health round reports peers that just went from healthy to
\* unhealthy and flush_on_peer_down is set for the overlay, the loop goes on
\* to flush every such peer in the same firing: each route the peer owns is
\* deleted from the kernel, then the peer's entries leave the route table,
\* and entries of other peers stay as they are.
C5_PeerDownFlush ==
  [][ /\ ( /\ loop.pc = "idle"
           /\ loop'.pc # "idle"
           /\ \E p \in loop'.down : OwnedBy(routes, p) # {}
           /\ cfg.overlayFlush )
         => (loop'.pc = "flush" /\ loop'.todo = loop'.down)
      /\ (loop.pc = "flush" /\ loop'.pc = "flushTable")
         => \A r \in GetByPeer(routes, loop'.cur) : KRoute(r, cfg) \notin kernel'
      /\ (loop.pc = "flushTable" /\ loop'.pc # "flushTable")
         => /\ \A q \in DOMAIN routes' : routes'[q].peerID # loop.cur
            /\ \A q \in DOMAIN routes :
                 routes[q].peerID # loop.cur => Has(routes', q) /\ routes'[q] = routes[q]
    ]_vars

\* C6: every route the loop's expire_stale() sweep takes out of the route
\* table is handed to the kernel delete of the same firing, which removes it
\* from the table derived from the route's VNI.
C6_ExpiredLeaveKernel ==
  [][ /\ (loop.pc = "expire" /\ loop'.pc # "expire")
         => /\ loop'.pc = "expireKernel"
            /\ loop'.expired = All(routes) \ All(routes')
            /\ \A r \in loop'.expired : ~Has(routes', r.prefix)
      /\ (loop.pc = "expireKernel" /\ loop'.pc # "expireKernel")
         => /\ loop'.pc = "swept"
            /\ \A r \in loop.expired : KRoute(r, cfg) \notin kernel'
    ]_vars

\* a firing is over in which the sweep expired a route learned from a peer
\* and the kernel route installed for it was deleted
C6_Witness ==
  /\ loop.pc = "swept"
  /\ loop.expired # {}
  /\ loop.unplugged # {}
  /\ \A r \in loop.expired :
       /\ ~Has(routes, r.prefix)
       /\ KRoute(r, cfg) \notin kernel
       /\ KRoute(r, cfg) \in loop.unplugged

\* C7: every entry of the route table whose expires_at is set has
\* expires_at = received_at + lease_seconds.
C7_ExpiryIsReceivedPlusLease ==
  \A q \in DOMAIN routes :
    routes[q].expiresAt # ZeroTime =>
      routes[q].expiresAt = routes[q].receivedAt + routes[q].lease

\* a leased entry stored after the clock has advanced
C7_Witness ==
  \E q \in DOMAIN routes :
    /\ routes[q].expiresAt # ZeroTime
    /\ routes[q].receivedAt > 1
    /\ routes[q].peerID \in PeerIds

\* C8: expire_stale() never removes an entry whose expires_at is unset.
C8_NoExpiryNeverExpires ==
  tlog.op = "expireStale" =>
    \A q \in DOMAIN tlog.before :
      tlog.before[q].expiresAt = ZeroTime =>
        Has(routes, q) /\ routes[q] = tlog.before[q]

\* a sweep that removed a leased route ran after an entry without expiry had
\* been in the table for a while, and that entry is still there
C8_Witness ==
  /\ tlog.op = "expireStale"
  /\ tlog.returned # {}
  /\ \E q \in DOMAIN routes :
       /\ routes[q].expiresAt = ZeroTime
       /\ routes[q].receivedAt < tlog.at

\* C9: remove_by_peer(P) deletes exactly the entries whose peer_id is P,
\* returns their number and leaves every other entry as it was.
C9_RemoveByPeerExact ==
  tlog.op = "removeByPeer" =>
    /\ DOMAIN routes = {q \in DOMAIN tlog.before : tlog.before[q].peerID # tlog.peerID}
    /\ \A q \in DOMAIN routes : routes[q] = tlog.before[q]
    /\ tlog.count = Cardinality(DOMAIN tlog.before) - Cardinality(DOMAIN routes)

\* remove_by_peer(B) took B's entry and left A's
C9_Witness ==
  /\ tlog.op = "removeByPeer"
  /\ tlog.peerID = "B"
  /\ tlog.count = 1
  /\ \E q \in DOMAIN routes : routes[q].peerID = "A"
  /\ \E q \in DOMAIN tlog.before : tlog.before[q].peerID = "B"

\* C10: an ExchangeState or AnnounceRoutes handler that ingested routes is
\* about to send its reply only after the callback has returned, with every
\* ingested route installed in the kernel.
C10_CallbackBeforeReply ==
  \A s \in Slots :
    ( /\ srv[s].pc = "reply"
      /\ srv[s].kind \in {"exchange", "announce"}
      /\ Len(srv[s].reqRoutes) > 0 )
    => /\ srv[s].cbDone
       /\ Len(srv[s].incoming) = Len(srv[s].reqRoutes)
       /\ \A i \in DOMAIN srv[s].incoming : KRoute(srv[s].incoming[i], cfg) \in kernel

\* an AnnounceRoutes handler with routes stands before its reply
C10_Witness ==
  \E s \in Slots :
    /\ srv[s].pc = "reply"
    /\ srv[s].kind = "announce"
    /\ Len(srv[s].incoming) = 2
    /\ srv[s].cbDone

\* C11: when an ExchangeState or AnnounceRoutes handler is about to reply, the
\* callback has been invoked exactly when the request carried routes, and its
\* argument is the request's routes, in order, each owned by the sender; a
\* request without routes has invoked no callback.
C11_CallbackGetsIngested ==
  \A s \in Slots :
    ( /\ srv[s].pc = "reply"
      /\ srv[s].kind \in {"exchange", "announce"} )
    => IF Len(srv[s].reqRoutes) > 0
         THEN /\ srv[s].cbDone
              /\ Len(srv[s].cbArg) = Len(srv[s].reqRoutes)
              /\ \A i \in DOMAIN srv[s].cbArg :
                    /\ srv[s].cbArg[i].prefix = srv[s].reqRoutes[i].prefix
                    /\ srv[s].cbArg[i].lease = srv[s].reqRoutes[i].lease
                    /\ srv[s].cbArg[i].peerID = srv[s].nodeId
         ELSE /\ ~srv[s].cbDone
              /\ srv[s].cbArg = << >>

\* an ExchangeState handler stands before its reply after the callback took
\* two routes for different prefixes
C11_Witness ==
  \E s \in Slots :
    /\ srv[s].pc = "reply"
    /\ srv[s].kind = "exchange"
    /\ Len(srv[s].cbArg) = 2
    /\ srv[s].cbArg[1].prefix # srv[s].cbArg[2].prefix

\* C12: whenever an RPC of a client operation to a healthy peer fails (the
\* state exchange, the announcement, the withdrawal) or the health probe to
\* it answers Unavailable or runs into its timeout, the peer is unhealthy
\* once the operation has returned.
C12_FailureMarksUnhealthy ==
  [][ /\ \A p \in PeerIds, resp \in SingleRoute \cup {<< >>} :
           (ExchangeWithPeer(p, FALSE, resp) /\ conns[p].healthy)
             => ~conns'[p].healthy
      /\ \A f \in SUBSET PeerIds :
           (AnnounceTick(f) \/ ClientWithdraw(f))
             => \A p \in f : (conns[p].present /\ conns[p].healthy)
                              => ~conns'[p].healthy
      /\ \A out \in [PeerIds -> ProbeOutcomes] :
           HealthCheck(out)
             => \A p \in PeerIds :
                  (conns[p].present /\ conns[p].healthy /\ out[p] # "ok")
                    => ~conns'[p].healthy
    ]_vars

\* C13: a successful RPC to a peer leaves it healthy with lastSeen set to the
\* time of the answer: the health probe does so for a peer that was unhealthy,
\* the state exchange for the peer it reached; and an announce tick sends to
\* every peer that is healthy when it fires, so a recovered peer is announced
\* to again.
C13_SuccessRestoresHealth ==
  [][ /\ \A out \in [PeerIds -> ProbeOutcomes] :
           HealthCheck(out)
             => \A p \in PeerIds :
                  (conns[p].present /\ ~conns[p].healthy /\ out[p] = "ok")
                    => /\ conns'[p].healthy
                       /\ conns'[p].lastSeen = now
                       /\ p \in loop'.recovered
      /\ \A p \in PeerIds, resp \in SingleRoute \cup {<< >>} :
           ExchangeWithPeer(p, TRUE, resp)
             => conns'[p].healthy /\ conns'[p].lastSeen = now
      /\ \A f \in SUBSET PeerIds :
           AnnounceTick(f)
             => \A p \in PeerIds :
                  (conns[p].present /\ conns[p].healthy) => p \in loop'.sent
    ]_vars

\* a health round has just brought peer A back from unhealthy, later than
\* its connection was made
C13_Witness ==
  /\ loop.op = "health"
  /\ "A" \in loop.recovered
  /\ conns["A"].healthy
  /\ conns["A"].lastSeen = now
  /\ now > 1

\* C14: every peer to which the state exchange, the announcement or the
\* withdrawal sends its RPC is connected and healthy when the operation
\* selects its targets; an unhealthy or disconnected peer gets none.
C14_OnlyHealthyTargets ==
  [][ /\ \A f \in SUBSET PeerIds :
           (AnnounceTick(f) \/ ClientWithdraw(f))
             => \A p \in loop'.sent : conns[p].present /\ conns[p].healthy
      /\ \A d \in SUBSET PeerIds :
           ConnectToPeers(d)
             => \A p \in loop'.todo : conns'[p].present /\ conns'[p].healthy
      /\ \A p \in PeerIds, ok \in BOOLEAN, resp \in SingleRoute \cup {<< >>} :
           ExchangeWithPeer(p, ok, resp)
             => /\ loop'.sent \ loop.sent \subseteq loop.todo
                /\ conns[p].present /\ conns[p].healthy
    ]_vars

\* an announcement went to A alone while B, connected, was unhealthy
C14_Witness ==
  /\ loop.pc = "called"
  /\ loop.op = "announce"
  /\ loop.sent = {"A"}
  /\ conns["B"].present
  /\ ~conns["B"].healthy

C17_ShutdownLeavesNoRoute ==
  daemon.server = "stopped"
    => \A r \in kernel : r.table \notin InstallTables(cfg)

\* C18: shutdown runs in a fixed order: after the cancellation the server
\* stops (draining its RPCs), then the client closes the peer connections,
\* and only after both are the installed routes flushed from the kernel.
C18_ShutdownOrder ==
  /\ daemon.client = "closed" => daemon.server = "stopped"
  /\ daemon.flushed => daemon.server = "stopped" /\ daemon.client = "closed"

\* C19: in a tick in which one overlay's cycle fails, every overlay after it
\* in the configuration is still reconciled.
C19_LaterOverlaysReconciled ==
  rec.failed # 0
    => \A i \in OverlayIdx : i > rec.failed => i \in rec.visited

\* C20: a tick that follows a tick completed without error changes nothing:
\* no link, bridge address, FDB entry or route is added, removed or altered.
C20_SecondTickChangesNothing ==
  [][(rec.ticks >= 1 /\ rec.failed = 0 /\ rec'.ticks = rec.ticks + 1)
       => net' = net /\ kernel' = kernel]_vars

\* two ticks without error have run and left both overlays' devices, the
\* bridge address and the FDB entries of the configured peers in place
C20_Witness ==
  /\ rec.okRun = 2
  /\ net.links["br1"].kind = "bridge" /\ net.links["br2"].kind = "bridge"
  /\ net.links["vx1"].master = "br1" /\ net.links["vx2"].kind = "vxlan"
  /\ net.addrs = {[dev |-> "br1", addr |-> "a1"]}
  /\ net.fdb = {[dev |-> "vx1", mac |-> "zero", dst |-> ip] : ip \in PeerAddrs}

\* the order the claims give to the kernel calls of one overlay's cycle
StepOrder == <<"bridge", "addr", "vxlan", "attach", "fdb", "rules">>

Pos(step) == CHOOSE j \in 1..Len(StepOrder) : StepOrder[j] = step

C22_OneSweepAtATime ==
  [][/\ Cardinality({r \in Runners : run'.pc[r] = "sweep"}) <= 1
     /\ \A r \in Runners :
          (run.running /\ run.pc[r] = "idle" /\ run'.pc[r] # "idle")
            => run'.pc[r] = "rejected" /\ net' = net /\ rec' = rec]_vars

\* the first caller is in its sweep, at the second overlay, and the second
\* caller has been refused
C22_Witness ==
  /\ run.pc[1] = "sweep" /\ run.idx[1] = 2
  /\ run.pc[2] = "rejected"
  /\ net.links["br1"].kind = "bridge"

\* the peers the device floods to: the remote addresses of its all-zero
\* entries
BroadcastPeers(n, vx) ==
  {e.dst : e \in {x \in n.fdb : x.dev = vx /\ x.mac = "zero"}}

\* C23: after a tick without error the all-zero FDB entries of a
\* head-end-replication overlay's VXLAN are exactly the configured peers,
\* and the FDB of a multicast overlay's VXLAN is as the tick found it.
C23_FdbFollowsBumMode ==
  [][(rec'.ticks = rec.ticks + 1 /\ rec'.failed = 0)
       => \A i \in OverlayIdx :
            LET ov == OverlayDefs[i]
            IN  IF ov.bum = "multicast"
                THEN (net.links[ov.name].kind = "vxlan"
                        /\ net.links[ov.name].vni = ov.vni)
                       => {e \in net'.fdb : e.dev = ov.name}
                            = {e \in net.fdb : e.dev = ov.name}
                ELSE BroadcastPeers(net', ov.name) = PeerAddrs]_vars

C25_EnsurePostconditions ==
  (rec.ticks >= 1 /\ rec.failed = 0)
    => \A i \in OverlayIdx :
         LET ov == OverlayDefs[i]
             br == net.links[ov.bridge]
             vx == net.links[ov.name]
         IN  /\ ov.manage
                  => br.kind = "bridge" /\ br.up /\ br.mtu = BridgeMtu(ov)
             /\ vx.kind = "vxlan" /\ vx.vni = ov.vni /\ vx.up
             /\ vx.master = ov.bridge

\* the addresses a parseable CIDR string stands for
AddrsOf(c) ==
  {a \in 0..(Pow2(AddrBits) - 1) :
     a \div Pow2(AddrBits - c.len) = c.addr \div Pow2(AddrBits - c.len)}

C27_RejectedNotInstalled ==
  \A k \in kernel :
    ShouldImportForOverlay(PrefixCidr(k.dst), cfg.import.deny,
                           cfg.import.allow, cfg.import.acceptAll)

\* C28: a received route goes only into the table of its VNI, VNI 100 into
\* table 100 and VNI 200 into table 200, and a route of an unknown VNI into
\* the fallback table.
C28_TableFromVni ==
  [][\A b \in WireBatches :
       ServeRoutes("A", b) =>
         \A k \in kernel' \ kernel :
           \E i \in DOMAIN b :
             /\ k.dst = b[i].prefix
             /\ k.table = IF b[i].vni = 100 THEN 100
                           ELSE IF b[i].vni = 200 THEN 200
                           ELSE cfg.table]_vars

C28_Witness ==
  /\ \E q \in DOMAIN routes : routes[q].vni = 999
  /\ \E q \in DOMAIN routes : routes[q].vni = 200
  /\ \E k \in kernel : k.table = 200
  /\ \E k \in kernel : k.table = cfg.table
  /\ \E k \in kernel : k.table = 100

\* C29: of a batch, exactly the routes whose prefix and next hop parse are
\* installed: a route that does not parse is dropped and stops none of the
\* others.
C29_BadRouteSkipped ==
  [][\A b \in WireBatches :
       ServeRoutes("A", b) =>
         kernel' = kernel \cup
           {[dst |-> b[i].prefix, table |-> TableForVni(cfg, b[i].vni)] :
              i \in {j \in DOMAIN b :
                       b[j].prefix # "bad" /\ b[j].nextHop # "bad"}}]_vars

C29_Witness ==
  /\ "bad" \in DOMAIN routes
  /\ \E q \in DOMAIN routes : routes[q].nextHop = "bad"
  /\ \E q \in DOMAIN routes :
       /\ Parseable(routes[q])
       /\ [dst |-> q, table |-> TableForVni(cfg, routes[q].vni)] \in kernel
  /\ \A k \in kernel : k.dst # "bad"

\* the kernel of host d holds the peer's prefix via the peer's bridge IP in
\* the overlay's table, tagged with the daemon's protocol id
HasPeerRoute(d) ==
  [dst |-> ExportOf(Other(d)), via |-> BridgeIP(Other(d)), table |-> 100,
   proto |-> 99] \in pair.kernel[d]

C31_ClientIngestInstalls ==
  [][\A p \in PeerIds, resp \in SingleRoute :
       ExchangeWithPeer(p, TRUE, resp) =>
         \A i \in DOMAIN resp : KRoute(Stamp(resp[i], p), cfg) \in kernel']_vars

\* C32: the routes an ExchangeState handler answers with are the routes this
\* node announces to its peers, the exported networks of its configuration,
\* and none of them was learned from a peer.
C32_ResponseIsLocalExports ==
  [][\A s \in Slots :
       (srv[s].kind = "exchange" /\ srv[s].pc = "reply" /\ Reply(s)) =>
         /\ {r.prefix : r \in getExportableRoutes(routes)}
              = {r.prefix : r \in getLocalExportableRoutes(cfg)}
         /\ \A r \in getExportableRoutes(routes) : r.peerID = ""]_vars

\* C33: ConnectToPeers connects every configured peer whose dial succeeds,
\* whichever other dials fail, and the call itself returns no error.
C33_DialFailuresDoNotFailConnect ==
  [][\A d \in SUBSET PeerIds :
       ConnectToPeers(d) =>
         /\ \A p \in d : conns'[p].present
         /\ ~loop'.firstErr]_vars

\* C34: an announce round leaves the health flag of a peer that answered
\* accepted=false as it was, and marks unhealthy a healthy peer whose RPC
\* failed in transport.
C34_RejectionOnlyLogged ==
  [][\A out \in [PeerIds -> {"ok", "rejected", "transport"}] :
       AnnounceTick(AnnounceFailed(out)) =>
         \A p \in HealthyPeers(conns) :
           /\ out[p] = "rejected"  => conns'[p].healthy = conns[p].healthy
           /\ out[p] = "transport" => ~conns'[p].healthy]_vars

\* C35: a configured peer left without a connection by ConnectToPeers is
\* eventually connected and healthy.
C35_FailedDialRetried ==
  \A p \in PeerIds :
    [](loop.pc # "start" /\ ~conns[p].present
         => <>(conns[p].present /\ conns[p].healthy))

\* C36: when a WithdrawRoutes handler removes a prefix, the entry it removes
\* is owned by the sender of the withdrawal at that moment, whatever other
\* handlers did between its ownership check and its removal.
C36_WithdrawRemovesOwnEntry ==
  [][\A s \in Slots :
       (srv[s].pc = "wremove" /\ WithdrawRemove(s)) =>
         /\ Has(routes, AtPrefix(srv[s]))
         /\ routes[AtPrefix(srv[s])].peerID = srv[s].nodeId]_vars

\* C37: a prefix the sender re-announces on every firing of its announce
\* ticker is never removed from the receiver's route table by the expiry
\* sweep, for every configured lease and every phase of the two tickers.
C37_RefreshedRouteSurvivesSweep ==
  [][LeaseSweep => \A q \in DOMAIN routes : q \in DOMAIN routes']_vars

\* C38: when a WithdrawRoutes handler removes a learned route from the route
\* table, the kernel route installed for that route is gone after the removal.
C38_WithdrawRemovesKernelRoute ==
  [][\A s \in Slots :
       (srv[s].pc = "wremove" /\ Has(routes, AtPrefix(srv[s]))
          /\ WithdrawRemove(s)) =>
         KRoute(routes[AtPrefix(srv[s])], cfg) \notin kernel']_vars

\* C39: every learned route of the route table, one with a non-empty peer id,
\* has its expiry set, whatever lease the peer sent, 0 included.
C39_LearnedRouteHasExpiry ==
  \A q \in DOMAIN routes :
    routes[q].peerID # "" => routes[q].expiresAt # ZeroTime

\* C40: a server handler runs the route-received callback, and with it the
\* kernel installation, holding neither the server's mutex nor the route
\* table's lock, before the call and after it.
C40_CallbackWithoutLocks ==
  [][\A s \in Slots :
       (srv[s].pc = "callback" /\ Callback(s)) =>
         /\ srv[s].held = {}
         /\ srv'[s].held = {}
         /\ (kernel' # kernel => \A u \in Slots : srv[u].held = {})]_vars

C40_Witness ==
  \E s \in Slots :
    /\ srv[s].cbDone /\ srv[s].held = {}
    /\ \E i \in DOMAIN srv[s].cbArg : KRoute(srv[s].cbArg[i], cfg) \in kernel
====
